---- MODULE Spec2Model ----
(***************************************************************************)
(* A model of the NodeGrain granular synthesis engine (cpp/src/grain_engine *)
(* .cpp and its headers) as a state machine.                                *)
(*                                                                         *)
(* Numbers.  The engine computes in float/double.  The model computes in   *)
(* fixed point: a real x is the integer x * FP (FP = 10^4), truncated the  *)
(* way a C++ float-to-int conversion truncates where the code converts.    *)
(* Engine time (currentTime_, nextGrainTime_; seconds in the code) is kept *)
(* in units of 1 / (sampleRate * FP) second, so that one frame is FP units *)
(* and a duration of d seconds (d * FP in fixed point) is d * FP *         *)
(* sampleRate units: both the block duration numFrames / sampleRate and a  *)
(* density in seconds are exact integers.  Float rounding is not modelled. *)
(***************************************************************************)
EXTENDS Integers, Sequences, FiniteSets, TLC

-----------------------------------------------------------------------------
(* Bounds of the model *)

\* the sample rate handed to init(), in Hz
ModelSampleRate == 1000
\* commands (start, stop, updateParams, buffer loads, ...) per behaviour
MaxCmds == 3
\* process() calls are explored while currentTime_ is below this many
\* 128-frame blocks
MaxBlocks == 2

-----------------------------------------------------------------------------
(* Program constants *)

MAX_GRAINS == 128
MAX_GRAIN_EVENTS == 64
\* uint32_t rngState_ = 12345
RngSeed == 12345
INT32_MAX == 2147483647

-----------------------------------------------------------------------------
(* Fixed-point arithmetic *)

FP == 10 ^ 4

Abs(x) == IF x < 0 THEN -x ELSE x
Sign(x) == IF x < 0 THEN -1 ELSE 1
Min(a, b) == IF a < b THEN a ELSE b
Max(a, b) == IF a < b THEN b ELSE a
\* std::max(lo, std::min(hi, v))
Clamp(v, lo, hi) == Max(lo, Min(hi, v))
\* integer division truncating toward zero, as C++ does (d > 0)
TruncDiv(a, d) == Sign(a) * (Abs(a) \div d)
\* a * b for fixed-point a, b (|b| small enough that (FP - 1) * |b| fits)
MulFP(a, b) ==
    Sign(a) * Sign(b) * ((Abs(a) \div FP) * Abs(b) + ((Abs(a) % FP) * Abs(b)) \div FP)

\* sin(2 * pi * p) for a phase p in [0, 1), by Bhaskara's rational
\* approximation on each half period (|error| < 0.002, exact at 0, 1/4, 1/2, 3/4)
SinHalf(q) ==
    LET u == (q * (FP - q)) \div FP
    IN  (16 * u * FP) \div (5 * FP - 4 * u)
SinTurns(p) ==
    LET ph == p % FP
    IN  IF 2 * ph < FP THEN SinHalf(2 * ph) ELSE -SinHalf(2 * ph - FP)
CosTurns(p) == SinTurns(p + FP \div 4)

\* 2^x for fixed-point x: 2^floor(x) * 2^frac(x), the second factor by the
\* series of exp(f * ln 2) up to the fourth power
Pow2Frac(f) ==
    LET t1 == MulFP(f, 6931)
        t2 == MulFP(MulFP(f, f), 2402)
        t3 == MulFP(MulFP(MulFP(f, f), f), 555)
        t4 == MulFP(MulFP(MulFP(MulFP(f, f), f), f), 96)
    IN  FP + t1 + t2 + t3 + t4
Pow2(x) ==
    LET n == x \div FP
        m == Pow2Frac(x % FP)
    IN  IF n >= 0 THEN m * (2 ^ n) ELSE m \div (2 ^ (-n))

-----------------------------------------------------------------------------
(* Time *)

sampleRate == ModelSampleRate
\* numFrames * invSampleRate_ in time units
FrameTime(numFrames) == numFrames * FP
\* a fixed-point number of seconds in time units
SecTime(sec) == sec * sampleRate
\* a time as fixed-point seconds: static_cast<float>(currentTime_)
TimeSec(t) == t \div sampleRate

-----------------------------------------------------------------------------
(* PRNG: xorshift32 on a 32-bit word kept as two 16-bit halves *)

Bit32 == 0 .. 31
WordBits(w) ==
    [i \in Bit32 |-> IF i < 16 THEN (w.lo \div (2 ^ i)) % 2
                               ELSE (w.hi \div (2 ^ (i - 16))) % 2]
RECURSIVE BitsVal(_, _, _)
BitsVal(b, from, n) ==
    IF n = 0 THEN 0 ELSE b[from] + 2 * BitsVal(b, from + 1, n - 1)
BitsWord(b) == [hi |-> BitsVal(b, 16, 16), lo |-> BitsVal(b, 0, 16)]
XorBits(a, b) == [i \in Bit32 |-> (a[i] + b[i]) % 2]
\* x << n and x >> n on uint32_t
Shl(a, n) == [i \in Bit32 |-> IF i >= n THEN a[i - n] ELSE 0]
Shr(a, n) == [i \in Bit32 |-> IF i + n <= 31 THEN a[i + n] ELSE 0]

randomUint(w) ==
    LET x0 == WordBits(w)
        x1 == XorBits(x0, Shl(x0, 13))
        x2 == XorBits(x1, Shr(x1, 17))
        x3 == XorBits(x2, Shl(x2, 5))
    IN  BitsWord(x3)
\* static_cast<float>(randomUint()) / 4294967296.0f as a fixed-point number
\* in [0, 1): the high half of the word decides it up to one unit
RandValue(w) == (w.hi * FP) \div 65536

-----------------------------------------------------------------------------
(* LFO (lfo.h) *)

\* LFO target bits (the bit index of each LfoTarget mask value)
LFO_GRAIN_SIZE == 0
LFO_DENSITY == 1
LFO_SPREAD == 2
LFO_POSITION == 3
LFO_PITCH == 4
LFO_FM_FREQ == 5
LFO_FM_AMOUNT == 6
LFO_ATTACK == 9
LFO_RELEASE == 10
LFO_PAN == 15
LFO_PAN_SPREAD == 16

\* LfoShape
Sine == 0
Triangle == 1
Square == 2
Sawtooth == 3

\* LFO::getValue(timeSec): the value in [-1, 1] at a time given in
\* fixed-point seconds, for the LFO's rate_ and shape_
LfoGetValue(lfo, timeSec) ==
    LET phase == MulFP(timeSec, lfo.rate) % FP
    IN  CASE lfo.shape = Sine -> SinTurns(phase)
          [] lfo.shape = Square -> IF 2 * phase < FP THEN FP ELSE -FP
          [] lfo.shape = Sawtooth -> 2 * phase - FP
          [] lfo.shape = Triangle -> Abs(4 * phase - 2 * FP) - FP
          [] OTHER -> 0

-----------------------------------------------------------------------------
(* Parameter smoother (param_smoother.h) *)

\* coeff_ = 1 - exp(-1 / (sampleRate * ms * 0.001)) for ms = 10, by the
\* series x - x^2/2 + x^3/6 of 1 - exp(-x) at x = 100 / sampleRate
SmoothCoeff ==
    LET x == (100 * FP) \div sampleRate
        x2 == (x * x) \div (2 * FP)
        x3 == (x2 * x) \div (3 * FP)
    IN  x - x2 + x3

\* current_ += (target_ - current_) * coeff_, the product rounded to the
\* nearest fixed-point unit
SmootherProcess(s) ==
    LET d == s.target - s.current
        step == Sign(d) * ((Abs(d) * SmoothCoeff + FP \div 2) \div FP)
    IN  [s EXCEPT !.current = @ + step]
\* for (i < numFrames) smoother.process(); a smoother that has reached its target
\* is left as it is by every further call
RECURSIVE SmootherAdvance(_, _)
SmootherAdvance(s, numFrames) ==
    IF numFrames <= 0 \/ s.current = s.target THEN s
    ELSE IF numFrames = 1 THEN SmootherProcess(s)
    ELSE SmootherAdvance(SmootherAdvance(s, numFrames \div 2),
                         numFrames - numFrames \div 2)
SetImmediate(v) == [current |-> v, target |-> v]
SetTarget(s, v) == [s EXCEPT !.target = v]

-----------------------------------------------------------------------------
(* Engine parameters (grain_engine.h, struct EngineParams and ModScales).  *)
(* Seconds, ratios, semitones, cents and Hz are fixed-point numbers; the   *)
(* LFO target mask is the set of its set bits.  The volume and the filter  *)
(* and FX fields are passed through to Web Audio nodes and take no part in *)
(* the grain engine; they are left out of the record.                      *)

DefaultParams ==
    [grainSize |-> 3000, density |-> 1500, spread |-> 0, position |-> 0,
     grainReversalChance |-> 0, pan |-> 0, panSpread |-> 0,
     pitch |-> 0, detune |-> 0, fmFreq |-> 0, fmAmount |-> 0,
     attack |-> 5000, release |-> 5000, envelopeCurve |-> 0,
     lfoRate |-> FP, lfoAmount |-> 0, lfoShape |-> Sine,
     lfoTargetMask |-> {}]

ScaleGrainSize == 2000
ScaleDensity == 1000
ScaleSpread == 10000
ScalePosition == 5000
ScalePitch == 240000
ScaleFmFreq == 2000000
ScaleFmAmount == 500000
ScaleAttack == 5000
ScaleRelease == 5000
ScalePan == 10000
ScalePanSpread == 10000

-----------------------------------------------------------------------------
(* Grain pool (grain.h) *)

\* a slot after the constructor's memset
ZeroGrain ==
    [active |-> FALSE, position |-> 0, playbackRate |-> 0,
     samplesRemaining |-> 0, totalSamples |-> 0,
     envPhase |-> 0, envIncrement |-> 0, attackRatio |-> 0, releaseRatio |-> 0,
     exponentialEnv |-> FALSE, panL |-> 0, panR |-> 0,
     normPos |-> 0, duration |-> 0, pan |-> 0]

ActiveSlots(grains) == {i \in DOMAIN grains : grains[i].active}

\* the scan of spawnGrain for an inactive slot: the first one in lo .. hi,
\* or 0 (the code's -1) when every slot there is active
RECURSIVE FirstFree(_, _, _)
FirstFree(grains, lo, hi) ==
    IF lo = hi THEN (IF grains[lo].active THEN 0 ELSE lo)
    ELSE LET mid == (lo + hi) \div 2
             a == FirstFree(grains, lo, mid)
         IN  IF a # 0 THEN a ELSE FirstFree(grains, mid + 1, hi)

\* the stealing scan of spawnGrain: the first slot in lo .. hi whose
\* samplesRemaining is below that of every earlier slot
RECURSIVE FirstLeast(_, _, _)
FirstLeast(grains, lo, hi) ==
    IF lo = hi THEN lo
    ELSE LET mid == (lo + hi) \div 2
             a == FirstLeast(grains, lo, mid)
             b == FirstLeast(grains, mid + 1, hi)
         IN  IF grains[b].samplesRemaining < grains[a].samplesRemaining THEN b ELSE a

\* the scan with its index started at the first slot and never moved
OldestSlotFirst(grains) == 1

\* oldestSlot: stays -1 (here 0) when no samplesRemaining is below INT32_MAX
OldestSlot(grains) ==
    LET i == FirstLeast(grains, 1, Len(grains))
    IN  IF grains[i].samplesRemaining < INT32_MAX THEN i ELSE 0

\* a full pool answered with the index one past the end of the array
FindSlotPastEnd(grains) ==
    LET free == FirstFree(grains, 1, Len(grains))
    IN  IF free # 0 THEN free ELSE Len(grains) + 1

\* the slot spawnGrain writes: the first inactive slot, else the oldest one
FindSlot(grains) ==
    LET free == FirstFree(grains, 1, Len(grains))
    IN  IF free # 0 THEN free ELSE OldestSlot(grains)

\* grains_[slot] = g.  Slots are 1 .. MAX_GRAINS; a store past the end of the
\* array would add a live grain beyond the pool.
StoreGrain(grains, slot, g) ==
    [i \in 1 .. Max(Len(grains), slot) |-> IF i = slot THEN g ELSE grains[i]]

-----------------------------------------------------------------------------
(* Modulation (GrainEngine::getModulated) *)

GetModulated(e, base, targetBit, scale, minVal, maxVal) ==
    IF targetBit \notin e.params.lfoTargetMask THEN base
    ELSE LET val == base + MulFP(scale, MulFP(e.currentLfoValue, e.params.lfoAmount))
         IN  Max(minVal, Min(maxVal, val))

-----------------------------------------------------------------------------
(* Spawning (GrainEngine::spawnGrain).  The engine is passed as a record e *)
(* of its member variables; the result holds the engine after the call,    *)
(* the slot written (0 when the call returned without spawning), the base  *)
(* position and the modulated parameters the call used.                    *)

\* the modulated parameters of one spawn
ModulatedParams(e) ==
    [grainSize |-> GetModulated(e, e.grainSizeSmoother.current, LFO_GRAIN_SIZE,
                                ScaleGrainSize, 100, 5000),
     spread |-> GetModulated(e, e.params.spread, LFO_SPREAD, ScaleSpread, 0, 2 * FP),
     pitch |-> GetModulated(e, e.pitchSmoother.current, LFO_PITCH,
                            ScalePitch, -24 * FP, 24 * FP),
     fmFreq |-> GetModulated(e, e.params.fmFreq, LFO_FM_FREQ, ScaleFmFreq, 0, 1000 * FP),
     fmAmount |-> GetModulated(e, e.params.fmAmount, LFO_FM_AMOUNT,
                               ScaleFmAmount, 0, 100 * FP),
     attack |-> GetModulated(e, e.params.attack, LFO_ATTACK, ScaleAttack, 100, 9000),
     release |-> GetModulated(e, e.params.release, LFO_RELEASE, ScaleRelease, 100, 9000),
     panCenter |-> GetModulated(e, e.panSmoother.current, LFO_PAN, ScalePan, -FP, FP),
     panSpread |-> GetModulated(e, e.params.panSpread, LFO_PAN_SPREAD,
                                ScalePanSpread, 0, FP)]

\* position with the drift ahead of the freeze
BasePositionDriftFirst(e) ==
    IF e.isDrifting THEN e.driftPosition
    ELSE IF e.isFrozen THEN e.frozenPosition
    ELSE e.positionSmoother.current
\* position: frozen > drift > manual
BasePosition(e) ==
    IF e.isFrozen THEN e.frozenPosition
    ELSE IF e.isDrifting THEN e.driftPosition
    ELSE e.positionSmoother.current

\* the PRNG words of the four draws of one spawn, in the order of the draws
\* (detune, reversal, start offset, pan)
SpawnDraws(w) ==
    LET rng1 == randomUint(w)
        rng2 == randomUint(rng1)
        rng3 == randomUint(rng2)
        rng4 == randomUint(rng3)
    IN  <<rng1, rng2, rng3, rng4>>

\* grain duration in seconds and in samples
GrainDuration(m) ==
    [seconds |-> Max(100, m.grainSize),
     durSamples |-> Max(100, m.grainSize) * sampleRate,
     totalSamples |-> Max(1, (Max(100, m.grainSize) * sampleRate) \div FP)]

\* playback rate from pitch + detune, reversal and FM; detuneRand and
\* reversalRand are the values of randomFloat()
GrainRate(e, m, detuneRand, reversalRand) ==
    LET cents == m.pitch * 100 + (2 * MulFP(e.params.detune, detuneRand) - e.params.detune)
        reversed == reversalRand < e.params.grainReversalChance
        rate == IF reversed THEN -Pow2(cents \div 1200) ELSE Pow2(cents \div 1200)
        \* sin(currentTime * fmFreq) * (fmAmount * 0.01), the angle taken in
        \* turns (1 / (2 pi) = 0.1592)
        fmMod == IF m.fmAmount > 0
                 THEN MulFP(m.fmAmount \div 100,
                            SinTurns(MulFP(MulFP(m.fmFreq, TimeSec(e.currentTime)), 1592)))
                 ELSE 0
    IN  [reversed |-> reversed, absRate |-> Max(1000, Abs(rate + fmMod))]

\* start position in the buffer, in fixed-point samples
GrainStart(e, dur, rate, position, spread, offsetRand) ==
    LET randomOffset == TruncDiv(MulFP(2 * offsetRand - FP, spread)
                                 * e.sampleBufferLength, 2)
        maxStart == e.sampleBufferLength * FP - MulFP(dur.durSamples, rate.absRate)
        startSample == Max(0, Min(position * e.sampleBufferLength + randomOffset,
                                  Max(0, maxStart)))
    IN  \* reversed grains start at the end of the region
        IF rate.reversed
        THEN Min(startSample + dur.durSamples, (e.sampleBufferLength - 1) * FP)
        ELSE startSample

\* pan position of the grain
GrainPan(m, panRand) ==
    Max(-FP, Min(FP, m.panCenter + MulFP(2 * panRand - FP, m.panSpread)))

\* the fields of the new grain; equal-power gains with the angle
\* (finalPan + 1) * pi / 4 taken in turns
NewGrain(e, m, dur, rate, startSample, finalPan) ==
    [active |-> TRUE,
     position |-> startSample,
     playbackRate |-> IF rate.reversed THEN -rate.absRate ELSE rate.absRate,
     totalSamples |-> dur.totalSamples,
     samplesRemaining |-> dur.totalSamples,
     envPhase |-> 0,
     envIncrement |-> FP \div dur.totalSamples,
     attackRatio |-> m.attack,
     releaseRatio |-> m.release,
     exponentialEnv |-> (e.params.envelopeCurve = 1),
     panL |-> CosTurns((finalPan + FP) \div 8),
     panR |-> SinTurns((finalPan + FP) \div 8),
     normPos |-> IF e.sampleBufferLength > 0
                 THEN startSample \div e.sampleBufferLength ELSE 0,
     duration |-> dur.seconds,
     pan |-> finalPan]

\* the grain one spawn makes from the modulated parameters m and the draws d
MakeGrain(e, m, dur, rate, d) ==
    NewGrain(e, m, dur, rate,
             GrainStart(e, dur, rate,
                        GetModulated(e, BasePosition(e), LFO_POSITION,
                                     ScalePosition, 0, FP),
                        m.spread, RandValue(d[3])),
             GrainPan(m, RandValue(d[4])))

\* an event buffer that makes room by dropping its oldest entry
PushEventDropOldest(grainEvents, grain) ==
    Append(IF Len(grainEvents) < MAX_GRAIN_EVENTS THEN grainEvents ELSE Tail(grainEvents),
           [normPos |-> grain.normPos, duration |-> grain.duration, pan |-> grain.pan])
\* record a grain event for visualization, if the buffer has room
PushEvent(grainEvents, grain) ==
    IF Len(grainEvents) < MAX_GRAIN_EVENTS
    THEN Append(grainEvents,
                [normPos |-> grain.normPos, duration |-> grain.duration,
                 pan |-> grain.pan])
    ELSE grainEvents

\* write the grain into its slot
SpawnInto(e, slot, m, grain, rng) ==
    [e |-> [e EXCEPT
              !.grains = StoreGrain(e.grains, slot, grain),
              !.rngState = rng,
              !.grainEvents = PushEvent(e.grainEvents, grain)],
     slot |-> slot,
     basePosition |-> BasePosition(e),
     modulated |-> m]

SpawnWith(e, slot, m, d) ==
    IF slot = 0
    THEN [e |-> e, slot |-> 0, basePosition |-> BasePosition(e), modulated |-> m]
    ELSE SpawnInto(e, slot, m,
                   MakeGrain(e, m, GrainDuration(m),
                             GrainRate(e, m, RandValue(d[1]), RandValue(d[2])), d),
                   d[4])

SpawnGrain(e) ==
    SpawnWith(e, FindSlot(e.grains), ModulatedParams(e), SpawnDraws(e.rngState))

-----------------------------------------------------------------------------
(* Drift (GrainEngine::updateDrift), deltaTimeSec in fixed-point seconds *)

\* the random walk without the clamp to [0, 1]
UpdateDriftUnclamped(e, deltaTimeSec) ==
    LET rng1 == randomUint(e.rngState)
        stepSize == MulFP(e.driftSpeed, deltaTimeSec) \div 2
        randomStep == MulFP(2 * RandValue(rng1) - FP, stepSize)
        distanceFromBase == e.driftBasePosition - e.driftPosition
        returnForce == TruncDiv(MulFP(MulFP(distanceFromBase, e.driftReturnTendency),
                                      deltaTimeSec), 2)
    IN  [e EXCEPT !.rngState = rng1,
                  !.driftPosition = @ + randomStep + returnForce]
UpdateDrift(e, deltaTimeSec) ==
    LET rng1 == randomUint(e.rngState)
        stepSize == MulFP(e.driftSpeed, deltaTimeSec) \div 2
        randomStep == MulFP(2 * RandValue(rng1) - FP, stepSize)
        distanceFromBase == e.driftBasePosition - e.driftPosition
        returnForce == TruncDiv(MulFP(MulFP(distanceFromBase, e.driftReturnTendency),
                                      deltaTimeSec), 2)
    IN  [e EXCEPT !.rngState = rng1,
                  !.driftPosition = Max(0, Min(FP, @ + randomStep + returnForce))]

-----------------------------------------------------------------------------
(* Per-grain DSP (GrainEngine::processGrain): one output sample of one     *)
(* grain.  The sample value read and the envelope do not change the        *)
(* grain; what the model keeps of the output is which grains were mixed.   *)

ProcessGrain(grain, sampleBufferLength) ==
    LET position == grain.position + grain.playbackRate
        samplesRemaining == grain.samplesRemaining - 1
    IN  [grain EXCEPT
            !.position = position,
            !.envPhase = @ + grain.envIncrement,
            !.samplesRemaining = samplesRemaining,
            !.active = ~(\/ samplesRemaining <= 0
                         \/ position < 0
                         \/ position >= sampleBufferLength * FP)]

\* a grain over the frames of one block: `if (!grain.active) continue;` then
\* processGrain, for each frame; frames counts the frames it was mixed into
GrainFrame(r) ==
    [r EXCEPT !.grain = ProcessGrain(r.grain, r.len), !.frames = @ + 1]
GrainActive(r) == r.grain.active
RECURSIVE GrainFrames(_, _)
GrainFrames(r, numFrames) ==
    IF numFrames <= 0 \/ ~GrainActive(r) THEN r
    ELSE IF numFrames = 1 THEN GrainFrame(r)
    ELSE GrainFrames(GrainFrames(r, numFrames \div 2), numFrames - numFrames \div 2)
RunGrain(grain, sampleBufferLength, numFrames) ==
    GrainFrames([grain |-> grain, len |-> sampleBufferLength, frames |-> 0], numFrames)

-----------------------------------------------------------------------------
(* Block processing (GrainEngine::process) *)

\* the least samplesRemaining over the active grains of a pool
RECURSIVE LeastRemaining(_, _, _)
LeastRemaining(grains, lo, hi) ==
    IF lo = hi THEN (IF grains[lo].active THEN grains[lo].samplesRemaining ELSE INT32_MAX)
    ELSE LET mid == (lo + hi) \div 2
         IN  Min(LeastRemaining(grains, lo, mid), LeastRemaining(grains, mid + 1, hi))

\* what one pass of the scheduling loop did, recorded for the properties:
\* the scheduled time of the spawn, the slot written, the state of the pool
\* and of the event buffer before and after, the modulated values the spawn
\* used, and the interval added to nextGrainTime_
SpawnRecord(pre, sp, density) ==
    [time |-> pre.nextGrainTime,
     slot |-> sp.slot,
     density |-> density,
     hadFree |-> ActiveSlots(pre.grains) # DOMAIN pre.grains,
     wasFree |-> sp.slot \in DOMAIN pre.grains /\ ~pre.grains[sp.slot].active,
     wasRemaining |-> IF sp.slot \in DOMAIN pre.grains
                      THEN pre.grains[sp.slot].samplesRemaining ELSE 0,
     leastRemaining |-> LeastRemaining(pre.grains, 1, Len(pre.grains)),
     activeAfter |-> sp.slot \in DOMAIN sp.e.grains /\ sp.e.grains[sp.slot].active,
     othersKept |-> /\ DOMAIN sp.e.grains = DOMAIN pre.grains
                    /\ \A j \in DOMAIN pre.grains :
                          j # sp.slot => sp.e.grains[j] = pre.grains[j],
     eventsBefore |-> Len(pre.grainEvents),
     eventsAfter |-> Len(sp.e.grainEvents),
     eventsKept |-> SubSeq(sp.e.grainEvents, 1, Len(pre.grainEvents)) = pre.grainEvents,
     basePosition |-> sp.basePosition,
     position |-> GetModulated(pre, sp.basePosition, LFO_POSITION, ScalePosition, 0, FP),
     modulated |-> sp.modulated]

\* one pass of `while (nextGrainTime_ < blockEndTime)`: spawn, then advance
\* nextGrainTime_ by the (possibly LFO-modulated) density.  params_ and
\* currentLfoValue_ do not change inside the loop: with an interval <= 0
\* the condition stays true for ever and the call never returns (hung).
\* A positive interval is at least one fixed-point unit of a second, which
\* bounds the number of passes.
ScheduleAdvance(x, sp, density) ==
    [x EXCEPT
        !.e = [sp.e EXCEPT !.nextGrainTime = sp.e.nextGrainTime + SecTime(density)],
        !.log = Append(x.log, SpawnRecord(x.e, sp, density)),
        !.hung = density <= 0]
ScheduleSpawned(x, sp) ==
    ScheduleAdvance(x, sp, GetModulated(sp.e, sp.e.params.density, LFO_DENSITY,
                                        ScaleDensity, 50, 10 * FP))
ScheduleStep(x) == ScheduleSpawned(x, SpawnGrain(x.e))
ScheduleCond(x) == ~x.hung /\ x.e.nextGrainTime < x.blockEndTime
RECURSIVE ScheduleLoop(_, _)
ScheduleLoop(x, n) ==
    IF n <= 0 \/ ~ScheduleCond(x) THEN x
    ELSE IF n = 1 THEN ScheduleStep(x)
    ELSE ScheduleLoop(ScheduleLoop(x, n \div 2), n - n \div 2)
Schedule(e, blockEndTime) ==
    ScheduleLoop([e |-> e, blockEndTime |-> blockEndTime, log |-> <<>>, hung |-> FALSE],
                 (blockEndTime - e.nextGrainTime) \div SecTime(1) + 1)

\* memset(output, 0, numFrames * sizeof(float))
ClearOutput(numFrames) == [i \in 1 .. numFrames |-> 0]

\* an early return that leaves the clock where it was
ProcessSilentFrozenClock(e, numFrames) ==
    [e |-> e,
     outputL |-> ClearOutput(numFrames),
     outputR |-> ClearOutput(numFrames),
     log |-> <<>>,
     hung |-> FALSE]

\* an early return that also moves the next spawn to the end of the block
ProcessSilentResync(e, numFrames) ==
    [e |-> [e EXCEPT !.currentTime = e.currentTime + FrameTime(numFrames),
                     !.nextGrainTime = e.currentTime + FrameTime(numFrames)],
     outputL |-> ClearOutput(numFrames),
     outputR |-> ClearOutput(numFrames),
     log |-> <<>>,
     hung |-> FALSE]

\* the early return of process(): not playing, or no sample buffer
ProcessSilent(e, numFrames) ==
    [e |-> [e EXCEPT !.currentTime = @ + FrameTime(numFrames)],
     outputL |-> ClearOutput(numFrames),
     outputR |-> ClearOutput(numFrames),
     log |-> <<>>,
     hung |-> FALSE]

\* cache the LFO value for this block and advance the parameter smoothers
AdvanceSmoothers(e, numFrames) ==
    [e EXCEPT
        !.currentLfoValue = LfoGetValue(e.lfo, TimeSec(e.currentTime)),
        !.pitchSmoother = SmootherAdvance(e.pitchSmoother, numFrames),
        !.positionSmoother = SmootherAdvance(e.positionSmoother, numFrames),
        !.grainSizeSmoother = SmootherAdvance(e.grainSizeSmoother, numFrames),
        !.panSmoother = SmootherAdvance(e.panSmoother, numFrames)]

\* the drift update, also made while frozen
AdvanceDriftFrozenToo(e, numFrames) ==
    IF e.isDrifting
    THEN UpdateDrift(e, (numFrames * FP) \div sampleRate)
    ELSE e
\* update drift if active
AdvanceDrift(e, numFrames) ==
    IF e.isDrifting /\ ~e.isFrozen
    THEN UpdateDrift(e, (numFrames * FP) \div sampleRate)
    ELSE e

\* process all active grains over the frames of the block; runs[g] is slot
\* g's grain after the block with the number of frames it was mixed into
MixRuns(e, runs, numFrames, log) ==
    [e |-> [e EXCEPT
              !.grains = [g \in DOMAIN runs |-> runs[g].grain],
              !.currentTime = e.currentTime + FrameTime(numFrames)],
     outputL |-> [i \in 1 .. numFrames |->
                    Cardinality({g \in DOMAIN runs : runs[g].frames >= i})],
     outputR |-> [i \in 1 .. numFrames |->
                    Cardinality({g \in DOMAIN runs : runs[g].frames >= i})],
     log |-> log,
     hung |-> FALSE]

\* what follows the scheduling loop; a loop that never exits leaves the
\* call inside it, with the output cleared and the grains not yet mixed
MixGrains(sched, numFrames) ==
    IF sched.hung
    THEN [e |-> sched.e,
          outputL |-> ClearOutput(numFrames),
          outputR |-> ClearOutput(numFrames),
          log |-> sched.log,
          hung |-> TRUE]
    ELSE MixRuns(sched.e,
                 [g \in DOMAIN sched.e.grains |->
                    RunGrain(sched.e.grains[g], sched.e.sampleBufferLength, numFrames)],
                 numFrames, sched.log)

\* the rest of process(): LFO, smoothers, drift, scheduling, mixing
ProcessPlaying(e, numFrames) ==
    MixGrains(Schedule(AdvanceDrift(AdvanceSmoothers(e, numFrames), numFrames),
                       e.currentTime + FrameTime(numFrames)),
              numFrames)

Process(e, numFrames) ==
    IF ~e.isPlaying \/ ~e.hasSampleBuffer \/ e.sampleBufferLength = 0
    THEN ProcessSilent(e, numFrames)
    ELSE ProcessPlaying(e, numFrames)

-----------------------------------------------------------------------------
(* Envelope (GrainEngine::computeEnvelope): the gain of a grain at its     *)
(* envPhase, as a fixed-point number.                                      *)

\* the anti-click fade (1% of the grain) and the value it ramps to
EnvFadeRatio == 100
EnvMinVal == 10
\* x < epsilon for epsilon = 1e-6, a hundredth of a fixed-point unit
BelowEpsilon(x) == 100 * x < 1

\* phase < fadeRatio: ramp from 0 to the minimum value
EnvFadeIn(phase) == (phase * EnvMinVal) \div EnvFadeRatio

\* fadeRatio <= phase < attackEnd
EnvAttack(grain, phase, attackDuration) ==
    IF BelowEpsilon(attackDuration) THEN EnvMinVal
    ELSE LET t == ((phase - EnvFadeRatio) * FP) \div attackDuration
         IN  IF grain.exponentialEnv
             THEN EnvMinVal + MulFP(MulFP(t, t), FP - EnvMinVal)
             ELSE EnvMinVal + MulFP(t, FP - EnvMinVal)

\* releaseStart <= phase
EnvRelease(grain, phase, releaseStart) ==
    IF BelowEpsilon(grain.releaseRatio) THEN 0
    ELSE LET t == Min(FP, ((phase - releaseStart) * FP) \div grain.releaseRatio)
         IN  IF grain.exponentialEnv
             THEN MulFP(FP - t, FP - t)
             ELSE FP - t

ComputeEnvelope(grain) ==
    IF grain.envPhase < EnvFadeRatio THEN EnvFadeIn(grain.envPhase)
    ELSE IF grain.envPhase < grain.attackRatio
         THEN EnvAttack(grain, grain.envPhase, grain.attackRatio - EnvFadeRatio)
    ELSE IF grain.envPhase < FP - grain.releaseRatio THEN FP
    ELSE EnvRelease(grain, grain.envPhase, FP - grain.releaseRatio)

-----------------------------------------------------------------------------
(* Commands *)

\* start() without `nextGrainTime_ = currentTime_`
StartNoResync(e) ==
    IF e.isPlaying THEN e ELSE [e EXCEPT !.isPlaying = TRUE]

\* GrainEngine::start
Start(e) ==
    IF e.isPlaying THEN e
    ELSE [e EXCEPT !.isPlaying = TRUE, !.nextGrainTime = e.currentTime]

\* stop() without the loop that deactivates the grains
StopKeepGrains(e) == [e EXCEPT !.isPlaying = FALSE]

\* GrainEngine::stop
Stop(e) ==
    [e EXCEPT !.isPlaying = FALSE,
              !.grains = [i \in DOMAIN @ |-> [@[i] EXCEPT !.active = FALSE]]]

\* GrainEngine::updateParams
\* updateParams that also moves the frozen position to the new position
UpdateParamsMovesFrozen(e, params) ==
    [e EXCEPT !.params = params,
              !.lfo = [rate |-> params.lfoRate, shape |-> params.lfoShape],
              !.pitchSmoother = SetTarget(e.pitchSmoother, params.pitch),
              !.positionSmoother = SetTarget(e.positionSmoother, params.position),
              !.grainSizeSmoother = SetTarget(e.grainSizeSmoother, params.grainSize),
              !.panSmoother = SetTarget(e.panSmoother, params.pan),
              !.frozenPosition = params.position]
UpdateParams(e, params) ==
    [e EXCEPT !.params = params,
              !.lfo = [rate |-> params.lfoRate, shape |-> params.lfoShape],
              !.pitchSmoother = SetTarget(e.pitchSmoother, params.pitch),
              !.positionSmoother = SetTarget(e.positionSmoother, params.position),
              !.grainSizeSmoother = SetTarget(e.grainSizeSmoother, params.grainSize),
              !.panSmoother = SetTarget(e.panSmoother, params.pan)]

\* the worklet's 'sampleBuffer' message: allocateSampleBuffer(length), the
\* copy into the heap, commitSampleBuffer(channels, length)
LoadSampleBuffer(e, lengthInSamples) ==
    [e EXCEPT !.hasSampleBuffer = TRUE, !.sampleBufferLength = lengthInSamples]

\* GrainEngine::setFrozen
SetFrozen(e, frozen, position) ==
    [e EXCEPT !.isFrozen = frozen,
              !.frozenPosition = IF frozen THEN position ELSE @]

\* GrainEngine::setDrift
SetDrift(e, enabled, basePosition, speed, returnTendency) ==
    IF enabled
    THEN [e EXCEPT !.isDrifting = TRUE,
                   !.driftBasePosition = basePosition,
                   !.driftPosition = basePosition,
                   !.driftSpeed = speed,
                   !.driftReturnTendency = returnTendency]
    ELSE [e EXCEPT !.isDrifting = FALSE]

\* the engine after its constructor (member initialisers, memset) and init()
InitEngine ==
    [isPlaying |-> FALSE,
     currentTime |-> 0,
     nextGrainTime |-> 0,
     hasSampleBuffer |-> FALSE,
     sampleBufferLength |-> 0,
     params |-> DefaultParams,
     lfo |-> [rate |-> FP, shape |-> Sine],
     currentLfoValue |-> 0,
     pitchSmoother |-> SetImmediate(0),
     positionSmoother |-> SetImmediate(0),
     grainSizeSmoother |-> SetImmediate(1000),
     panSmoother |-> SetImmediate(0),
     grains |-> [i \in 1 .. MAX_GRAINS |-> ZeroGrain],
     grainEvents |-> <<>>,
     rngState |-> [hi |-> 0, lo |-> RngSeed],
     isFrozen |-> FALSE,
     frozenPosition |-> 0,
     isDrifting |-> FALSE,
     driftPosition |-> 5000,
     driftBasePosition |-> 5000,
     driftSpeed |-> 5000,
     driftReturnTendency |-> 3000]

-----------------------------------------------------------------------------
(* The JS engine (AudioEngine), which createEngine falls back to.  Times   *)
(* are fixed-point seconds of the AudioContext clock.  Of a scheduled      *)
(* grain the model keeps its start time and the positions it was computed  *)
(* from; the grain queue of the visualization is kept by its length; the   *)
(* Web Audio nodes (gains, filter, FX) take no part in the scheduling.     *)

\* the lookahead of schedule(), the period of its timer (also the time step
\* it passes to updateDrift) and the floor of the interval between grains
JsLookahead == 1000
JsTimerPeriod == 250
JsMinDensity == 50
\* the scale of the LFO on the density, seconds per unit
JsScaleDensity == 1000

\* the engine after `new AudioEngine(initialParams)`
JsInitEngine(initialParams) ==
    [ctx |-> FALSE,             \* the AudioContext (and the nodes) exist
     currentTime |-> 0,         \* ctx.currentTime
     buffer |-> FALSE,
     isPlaying |-> FALSE,
     nextGrainTime |-> 0,
     schedulerId |-> FALSE,     \* a timer of schedule() is pending
     params |-> initialParams,
     grainQueueLength |-> 0,
     isFrozen |-> FALSE,
     frozenPosition |-> 0,
     isDrifting |-> FALSE,
     driftPosition |-> 5000,
     driftBasePosition |-> 5000,
     driftSpeed |-> 5000,
     driftReturnTendency |-> 3000,
     driftTime |-> 0]

\* AudioEngine.getLfoValue(time)
JsGetLfoValue(j, time) ==
    LfoGetValue([rate |-> j.params.lfoRate, shape |-> j.params.lfoShape], time)

\* the helper getMod of playGrain
JsGetMod(j, lfoVal, key, base, scale, minVal, maxVal) ==
    IF key \notin j.params.lfoTargetMask THEN base
    ELSE Min(maxVal, Max(minVal, base + MulFP(scale, MulFP(lfoVal, j.params.lfoAmount))))

\* priority: frozen > drift > manual position
JsBasePosition(j) ==
    IF j.isFrozen THEN j.frozenPosition
    ELSE IF j.isDrifting THEN j.driftPosition
    ELSE j.params.position

\* AudioEngine.playGrain(time): the grains it starts (none without a
\* context or a buffer)
JsPlayGrain(j, time) ==
    IF ~j.ctx \/ ~j.buffer THEN <<>>
    ELSE <<[time |-> time,
            basePosition |-> JsBasePosition(j),
            position |-> JsGetMod(j, JsGetLfoValue(j, time), LFO_POSITION,
                                  JsBasePosition(j), ScalePosition, 0, FP)]>>

\* the interval schedule() adds after the grain started at nextGrainTime
JsDensity(j) ==
    Max(JsMinDensity,
        IF LFO_DENSITY \in j.params.lfoTargetMask
        THEN j.params.density
             + MulFP(JsScaleDensity,
                     MulFP(JsGetLfoValue(j, j.nextGrainTime), j.params.lfoAmount))
        ELSE j.params.density)

\* one pass of `while (this.nextGrainTime < this.ctx.currentTime + 0.1)`
JsScheduleStep(x, grains) ==
    [j |-> [x.j EXCEPT !.nextGrainTime = x.j.nextGrainTime + JsDensity(x.j),
                       !.grainQueueLength = x.j.grainQueueLength + Len(grains)],
     log |-> x.log \o grains]
JsScheduleCond(x) == x.j.nextGrainTime < x.j.currentTime + JsLookahead
RECURSIVE JsScheduleLoop(_, _)
JsScheduleLoop(x, n) ==
    IF n <= 0 \/ ~JsScheduleCond(x) THEN x
    ELSE IF n = 1 THEN JsScheduleStep(x, JsPlayGrain(x.j, x.j.nextGrainTime))
    ELSE JsScheduleLoop(JsScheduleLoop(x, n \div 2), n - n \div 2)

\* AudioEngine.updateDrift(deltaTime), random the value of Math.random()
JsUpdateDrift(j, deltaTime, random) ==
    IF ~j.isDrifting THEN j
    ELSE [j EXCEPT
            !.driftTime = j.driftTime + deltaTime,
            !.driftPosition =
                Max(0, Min(FP,
                    j.driftPosition
                    + MulFP(2 * random - FP, MulFP(j.driftSpeed, deltaTime) \div 2)
                    + TruncDiv(MulFP(MulFP(j.driftBasePosition - j.driftPosition,
                                           j.driftReturnTendency), deltaTime), 2)))]

\* the drift update of schedule()
JsScheduleDrift(j, random) ==
    IF j.isDrifting /\ ~j.isFrozen THEN JsUpdateDrift(j, JsTimerPeriod, random) ELSE j

\* the scheduling loop of schedule() and the timer it sets
JsScheduleGrains(j) ==
    LET x == JsScheduleLoop([j |-> j, log |-> <<>>],
                            (j.currentTime + JsLookahead - j.nextGrainTime)
                                \div JsMinDensity + 1)
    IN  [j |-> [x.j EXCEPT !.schedulerId = TRUE], log |-> x.log]

\* AudioEngine.schedule()
JsSchedule(j, random) ==
    IF ~j.isPlaying \/ ~j.ctx \/ ~j.buffer THEN [j |-> j, log |-> <<>>]
    ELSE JsScheduleGrains(JsScheduleDrift(j, random))

\* AudioEngine.init(): the context and the nodes, updateParams(this.params)
JsInit(j) == [j EXCEPT !.ctx = TRUE]

\* AudioEngine.loadSample(file): init(), decode, reset the position
JsLoadSample(j) ==
    [JsInit(j) EXCEPT !.buffer = TRUE, !.params.position = 0]

\* AudioEngine.start()
JsStart(j, random) ==
    IF j.isPlaying \/ ~j.ctx THEN [j |-> j, log |-> <<>>]
    ELSE JsSchedule([j EXCEPT !.isPlaying = TRUE, !.nextGrainTime = j.currentTime],
                    random)

\* AudioEngine.stop()
JsStop(j) == [j EXCEPT !.isPlaying = FALSE, !.schedulerId = FALSE]

\* AudioEngine.updateParams(newParams)
JsUpdateParams(j, newParams) == [j EXCEPT !.params = newParams]

\* AudioEngine.freeze() and unfreeze()
JsFreeze(j) ==
    IF ~j.isFrozen
    THEN [j EXCEPT !.isFrozen = TRUE, !.frozenPosition = j.params.position]
    ELSE j
JsUnfreeze(j) == [j EXCEPT !.isFrozen = FALSE]

\* AudioEngine.startDrift(basePosition) and stopDrift()
JsStartDrift(j, basePosition) ==
    [j EXCEPT !.isDrifting = TRUE, !.driftBasePosition = basePosition,
              !.driftPosition = basePosition, !.driftTime = 0]
JsStopDrift(j) == [j EXCEPT !.isDrifting = FALSE]

-----------------------------------------------------------------------------
(* The worklet (GrainProcessor) around the WASM engine and the bridge      *)
(* (AudioEngineWASM) on the main thread.  A message is a record of its     *)
(* type and its payload.  Of the messages the worklet posts, those the     *)
(* bridge has no handler for (fxParams, sampleBufferLoaded) are left out.  *)

\* the worklet sends the stored grain events after every tenth process call
DrainPeriod == 10

\* `x || d` for a number x
OrDefault(x, d) == IF x = 0 THEN d ELSE x

\* GrainProcessor._handleMessage(msg) with an engine: the engine after it
HandleMessage(e, msg) ==
    CASE msg.type = "params" -> UpdateParams(e, msg.arg)
      [] msg.type = "sampleBuffer" -> LoadSampleBuffer(e, msg.arg)
      [] msg.type = "start" -> Start(e)
      [] msg.type = "stop" -> Stop(e)
      [] msg.type = "freeze" -> SetFrozen(e, msg.arg[1], OrDefault(msg.arg[2], 0))
      [] msg.type = "drift" ->
            SetDrift(e, msg.arg[1], OrDefault(msg.arg[2], 5000),
                     OrDefault(msg.arg[3], 5000), OrDefault(msg.arg[4], 3000))
      [] OTHER -> e

\* a drain that posts the events and leaves them in the engine
DrainEventsKeep(e, frameCount) ==
    IF frameCount % DrainPeriod = 0 /\ Len(e.grainEvents) > 0
    THEN [e |-> e, posted |-> <<[type |-> "grainEvents", events |-> e.grainEvents]>>]
    ELSE [e |-> e, posted |-> <<>>]
\* the end of GrainProcessor.process: every tenth call copy the events
\* 0 .. count - 1 out of the engine, post them, clearGrainEvents()
DrainEvents(e, frameCount) ==
    IF frameCount % DrainPeriod = 0 /\ Len(e.grainEvents) > 0
    THEN [e |-> [e EXCEPT !.grainEvents = <<>>],
          posted |-> <<[type |-> "grainEvents", events |-> e.grainEvents]>>]
    ELSE [e |-> e, posted |-> <<>>]

\* the bridge's port.onmessage
BridgeOnMessage(b, msg) ==
    CASE msg.type = "ready" -> [b EXCEPT !.isReady = TRUE]
      [] msg.type = "grainEvents" -> [b EXCEPT !.grainQueue = b.grainQueue \o msg.events]
      [] OTHER -> b

\* AudioEngineWASM.pollGrainEvents(): the bridge after it, the events returned
PollGrainEvents(b) ==
    [b |-> [b EXCEPT !.grainQueue = <<>>], events |-> b.grainQueue]

\* the events of the grainEvents messages in a sequence of messages
RECURSIVE EventsIn(_)
EventsIn(msgs) ==
    IF msgs = <<>> THEN <<>>
    ELSE (IF Head(msgs).type = "grainEvents" THEN Head(msgs).events ELSE <<>>)
         \o EventsIn(Tail(msgs))

-----------------------------------------------------------------------------
(* Inputs *)

\* parameter records the host submits: a dense cloud below the documented
\* density range, a zero density, and an in-range record with the LFO on
\* density and grain size
DenseParams ==
    [DefaultParams EXCEPT !.grainSize = 5000, !.density = 10, !.spread = FP,
                          !.grainReversalChance = 5000, !.panSpread = 5000]
ZeroDensityParams == [DefaultParams EXCEPT !.density = 0]
LfoParams ==
    [DefaultParams EXCEPT !.grainSize = 200, !.density = 50, !.pitch = 12 * FP,
                          !.lfoRate = 4 * FP, !.lfoAmount = FP, !.lfoShape = Square,
                          !.lfoTargetMask = {LFO_DENSITY, LFO_GRAIN_SIZE}]
ParamRecords == {DenseParams, ZeroDensityParams, LfoParams}

\* sample-buffer lengths, in samples
BufferLengths == {0, 200, 1000}
\* block sizes: the render quantum and half of it
BlockSizes == {64, 128}
\* setFrozen and setDrift calls
FreezeCalls == {<<TRUE, 2500>>, <<FALSE, 0>>}
DriftCalls == {<<TRUE, 5000, FP, 5000>>, <<FALSE, 5000, 5000, 3000>>}

\* the inputs of the position controller: a manual position, a position
\* under the LFO, freeze and unfreeze, drift from a base inside and from a
\* base outside [0, 1], one buffer length, the render quantum
ManualParams == [DefaultParams EXCEPT !.position = 7500]
LfoPositionParams ==
    [DefaultParams EXCEPT !.position = 1000, !.lfoAmount = FP, !.lfoShape = Square,
                          !.lfoTargetMask = {LFO_POSITION}]
PosParamRecords == {ManualParams, LfoPositionParams}
PosFreezeCalls == {<<TRUE, 2500>>, <<FALSE, 0>>}
PosDriftCalls ==
    {<<TRUE, 5000, FP, 5000>>, <<TRUE, 15000, FP, 3000>>, <<FALSE, 5000, 5000, 3000>>}
PosBufferLengths == {1000}
PosBlockSizes == {128}
\* the values Math.random() returns
JsRandoms == {0, 9999}
\* the parameters the bridge was constructed with, the messages the host
\* has the bridge post after init(), how many of them, and the number of
\* render quanta of a run of the worklet
WkInitialParams ==
    [DefaultParams EXCEPT !.position = 5000, !.spread = FP, !.panSpread = 5000]
HostMessages ==
    {[type |-> "sampleBuffer", arg |-> 1000], [type |-> "start", arg |-> <<>>]}
MaxHostMsgs == 2
MaxWkBlocks == 21
\* attack and release ratios of a grain, from the ends and the inside of
\* the declared range [0.01, 0.9], and the phases its envelope is read at
EnvRatios == {100, 101, 2500, 5000, 9000}
EnvPhases(attackRatio, releaseRatio) ==
    {0, 50, EnvFadeRatio, attackRatio, (EnvFadeRatio + attackRatio) \div 2,
     FP - releaseRatio, FP - releaseRatio \div 2, FP}
\* commands and blocks of a run of the position controller, and the time
\* the AudioContext clock of the JS engine runs to
MaxPosCmds == 5
MaxPosBlocks == 2
MaxJsTime == 750

-----------------------------------------------------------------------------
(* State *)

VARIABLES
    isPlaying_, currentTime_, nextGrainTime_,
    sampleBuffer_,          \* TRUE when the pointer is not null
    sampleBufferLength_,
    params_, lfo_, currentLfoValue_,
    pitchSmoother_, positionSmoother_, grainSizeSmoother_, panSmoother_,
    grains_, grainEvents_, rngState_,
    isFrozen_, frozenPosition_,
    isDrifting_, driftPosition_, driftBasePosition_, driftSpeed_,
    driftReturnTendency_,
    outputL, outputR,       \* per frame, the number of grains mixed into it
    hung,                   \* a process() call never returned
    call,                   \* the last call, its arguments, the state it saw
    spawnLog,               \* the spawns of the last process() call
    cmdCount,               \* commands issued so far
    engineKind,             \* the engine createEngine returned: "wasm" or "js"
    js,                     \* the JS engine (AudioEngine) and its audio clock
    jsCall,                 \* the last call into the JS engine, the state it saw
    jsLog,                  \* the playGrain calls of the last JS call
    worklet,                \* the GrainProcessor: engine, isReady, frameCount
    toWorklet,              \* messages posted to the worklet's port, in order
    toMain,                 \* messages posted to the main thread, in order
    bridge,                 \* the AudioEngineWASM: isReady, grainQueue
    stored,                 \* every event stored in the event buffer, in order
    delivered,              \* every event pollGrainEvents returned, in order
    discarded,              \* the host's messages the worklet dropped
    env,                    \* a grain's envelope fields, the envelope computed
    twin,                   \* a second engine instance given the same calls
    boot,                   \* createEngine: the steps taken, the engine returned
    hist,                   \* the App's parameter record and its undo history
    snap,                   \* a pitch, a scale, the pitch snapPitchToScale gave
    rev                     \* one grain followed from its spawn to its end

engineVars ==
    <<isPlaying_, currentTime_, nextGrainTime_, sampleBuffer_, sampleBufferLength_,
      params_, lfo_, currentLfoValue_,
      pitchSmoother_, positionSmoother_, grainSizeSmoother_, panSmoother_,
      grains_, grainEvents_, rngState_, isFrozen_, frozenPosition_,
      isDrifting_, driftPosition_, driftBasePosition_, driftSpeed_,
      driftReturnTendency_>>
\* the JS engine, used when createEngine fell back to it
jsVars == <<js, jsCall, jsLog>>
\* the worklet around the WASM engine and the bridge on the main thread
wkVars == <<worklet, toWorklet, toMain, bridge, stored, delivered, discarded>>
\* the second engine instance, engine creation, and the App around the engine
appVars == <<twin, boot, hist, snap, rev>>
vars ==
    <<engineVars, outputL, outputR, hung, call, spawnLog, cmdCount, engineKind, jsVars,
      wkVars, env, appVars>>

Engine ==
    [isPlaying |-> isPlaying_,
     currentTime |-> currentTime_,
     nextGrainTime |-> nextGrainTime_,
     hasSampleBuffer |-> sampleBuffer_,
     sampleBufferLength |-> sampleBufferLength_,
     params |-> params_,
     lfo |-> lfo_,
     currentLfoValue |-> currentLfoValue_,
     pitchSmoother |-> pitchSmoother_,
     positionSmoother |-> positionSmoother_,
     grainSizeSmoother |-> grainSizeSmoother_,
     panSmoother |-> panSmoother_,
     grains |-> grains_,
     grainEvents |-> grainEvents_,
     rngState |-> rngState_,
     isFrozen |-> isFrozen_,
     frozenPosition |-> frozenPosition_,
     isDrifting |-> isDrifting_,
     driftPosition |-> driftPosition_,
     driftBasePosition |-> driftBasePosition_,
     driftSpeed |-> driftSpeed_,
     driftReturnTendency |-> driftReturnTendency_]

SetEngine(e) ==
    /\ isPlaying_' = e.isPlaying
    /\ currentTime_' = e.currentTime
    /\ nextGrainTime_' = e.nextGrainTime
    /\ sampleBuffer_' = e.hasSampleBuffer
    /\ sampleBufferLength_' = e.sampleBufferLength
    /\ params_' = e.params
    /\ lfo_' = e.lfo
    /\ currentLfoValue_' = e.currentLfoValue
    /\ pitchSmoother_' = e.pitchSmoother
    /\ positionSmoother_' = e.positionSmoother
    /\ grainSizeSmoother_' = e.grainSizeSmoother
    /\ panSmoother_' = e.panSmoother
    /\ grains_' = e.grains
    /\ grainEvents_' = e.grainEvents
    /\ rngState_' = e.rngState
    /\ isFrozen_' = e.isFrozen
    /\ frozenPosition_' = e.frozenPosition
    /\ isDrifting_' = e.isDrifting
    /\ driftPosition_' = e.driftPosition
    /\ driftBasePosition_' = e.driftBasePosition
    /\ driftSpeed_' = e.driftSpeed
    /\ driftReturnTendency_' = e.driftReturnTendency

\* what a call saw on entry
Seen(op, arg) ==
    [op |-> op, arg |-> arg,
     isPlaying |-> isPlaying_,
     currentTime |-> currentTime_,
     nextGrainTime |-> nextGrainTime_,
     silent |-> ~isPlaying_ \/ ~sampleBuffer_ \/ sampleBufferLength_ = 0,
     activeGrains |-> Cardinality(ActiveSlots(grains_))]

EngineInit ==
    /\ isPlaying_ = InitEngine.isPlaying
    /\ currentTime_ = InitEngine.currentTime
    /\ nextGrainTime_ = InitEngine.nextGrainTime
    /\ sampleBuffer_ = InitEngine.hasSampleBuffer
    /\ sampleBufferLength_ = InitEngine.sampleBufferLength
    /\ params_ = InitEngine.params
    /\ lfo_ = InitEngine.lfo
    /\ currentLfoValue_ = InitEngine.currentLfoValue
    /\ pitchSmoother_ = InitEngine.pitchSmoother
    /\ positionSmoother_ = InitEngine.positionSmoother
    /\ grainSizeSmoother_ = InitEngine.grainSizeSmoother
    /\ panSmoother_ = InitEngine.panSmoother
    /\ grains_ = InitEngine.grains
    /\ grainEvents_ = InitEngine.grainEvents
    /\ rngState_ = InitEngine.rngState
    /\ isFrozen_ = InitEngine.isFrozen
    /\ frozenPosition_ = InitEngine.frozenPosition
    /\ isDrifting_ = InitEngine.isDrifting
    /\ driftPosition_ = InitEngine.driftPosition
    /\ driftBasePosition_ = InitEngine.driftBasePosition
    /\ driftSpeed_ = InitEngine.driftSpeed
    /\ driftReturnTendency_ = InitEngine.driftReturnTendency
    /\ outputL = <<>>
    /\ outputR = <<>>
    /\ hung = FALSE
    /\ call = [op |-> "init", arg |-> <<>>, isPlaying |-> FALSE, currentTime |-> 0,
               nextGrainTime |-> 0, silent |-> TRUE, activeGrains |-> 0]
    /\ spawnLog = <<>>
    /\ cmdCount = 0

\* the worklet and the bridge are left out: the engine is called directly
WorkletIdle ==
    /\ worklet = [engine |-> TRUE, isReady |-> TRUE, frameCount |-> 0]
    /\ toWorklet = <<>>
    /\ toMain = <<>>
    /\ bridge = [isReady |-> TRUE, grainQueue |-> <<>>]
    /\ stored = <<>>
    /\ delivered = <<>>
    /\ discarded = <<>>

\* the JS engine after its constructor
JsEngineInit ==
    /\ js = JsInitEngine(DefaultParams)
    /\ jsCall = [op |-> "new", arg |-> <<>>, pre |-> JsInitEngine(DefaultParams)]
    /\ jsLog = <<>>

\* no grain's envelope is looked at
EnvIdle ==
    env = [attackRatio |-> 0, releaseRatio |-> 0, exponentialEnv |-> FALSE,
           envPhase |-> 0, value |-> 0, computed |-> FALSE]

\* one engine instance only
TwinIdle == twin = [on |-> FALSE]

\* createEngine has returned
BootIdle == boot = [step |-> "done"]

\* no parameter is changed through the App
HistIdle == hist = [on |-> FALSE]

\* no pitch is snapped
SnapIdle == snap = [computed |-> FALSE]

\* no grain is followed
RevIdle == rev = [on |-> FALSE]

AppIdle == TwinIdle /\ BootIdle /\ HistIdle /\ SnapIdle /\ RevIdle

\* createEngine returned the WASM engine
Init ==
    /\ EngineInit
    /\ engineKind = "wasm"
    /\ JsEngineInit
    /\ WorkletIdle
    /\ EnvIdle
    /\ AppIdle

-----------------------------------------------------------------------------
(* Actions: one per call into the engine.  The worklet runs its message    *)
(* handler and its process() callback on the one audio thread, so calls do *)
(* not interleave; after a call that never returns nothing else runs.      *)

CommandUpTo(maxCmds, op, arg, e) ==
    /\ engineKind = "wasm"
    /\ ~hung
    /\ cmdCount < maxCmds
    /\ SetEngine(e)
    /\ call' = Seen(op, arg)
    /\ cmdCount' = cmdCount + 1
    /\ UNCHANGED <<outputL, outputR, hung, spawnLog, engineKind, jsVars, wkVars, env, appVars>>

Command(op, arg, e) == CommandUpTo(MaxCmds, op, arg, e)

DoStart == Command("start", <<>>, Start(Engine))

DoStop == Command("stop", <<>>, Stop(Engine))

DoUpdateParams ==
    \E p \in ParamRecords : Command("updateParams", p, UpdateParams(Engine, p))

DoLoadSampleBuffer ==
    \E n \in BufferLengths : Command("sampleBuffer", n, LoadSampleBuffer(Engine, n))

DoSetFrozen ==
    \E c \in FreezeCalls : Command("setFrozen", c, SetFrozen(Engine, c[1], c[2]))

DoSetDrift ==
    \E c \in DriftCalls :
        Command("setDrift", c, SetDrift(Engine, c[1], c[2], c[3], c[4]))

ProcessUpTo(maxBlocks, blockSizes) ==
    /\ engineKind = "wasm"
    /\ ~hung
    /\ currentTime_ < maxBlocks * FrameTime(128)
    /\ \E numFrames \in blockSizes :
         \E r \in {Process(Engine, numFrames)} :
            /\ SetEngine(r.e)
            /\ outputL' = r.outputL
            /\ outputR' = r.outputR
            /\ hung' = r.hung
            /\ spawnLog' = r.log
            /\ call' = Seen("process", numFrames)
            /\ UNCHANGED <<cmdCount, engineKind, jsVars, wkVars, env, appVars>>

DoProcess == ProcessUpTo(MaxBlocks, BlockSizes)

Next ==
    \/ DoStart
    \/ DoStop
    \/ DoUpdateParams
    \/ DoLoadSampleBuffer
    \/ DoSetFrozen
    \/ DoSetDrift
    \/ DoProcess

Spec == Init /\ [][Next]_vars

-----------------------------------------------------------------------------
(* The position controller (freeze, drift, manual position) on either      *)
(* engine: createEngine returns the WASM engine or falls back to the JS    *)
(* engine, and the host drives the one it got.                             *)

InitPosition ==
    /\ EngineInit
    /\ engineKind \in {"wasm", "js"}
    /\ JsEngineInit
    /\ WorkletIdle
    /\ EnvIdle
    /\ AppIdle

PosStart == CommandUpTo(MaxPosCmds, "start", <<>>, Start(Engine))

PosUpdateParams ==
    \E p \in PosParamRecords :
        CommandUpTo(MaxPosCmds, "updateParams", p, UpdateParams(Engine, p))

PosLoadSampleBuffer ==
    \E n \in PosBufferLengths :
        CommandUpTo(MaxPosCmds, "sampleBuffer", n, LoadSampleBuffer(Engine, n))

PosSetFrozen ==
    \E c \in PosFreezeCalls :
        CommandUpTo(MaxPosCmds, "setFrozen", c, SetFrozen(Engine, c[1], c[2]))

PosSetDrift ==
    \E c \in PosDriftCalls :
        CommandUpTo(MaxPosCmds, "setDrift", c, SetDrift(Engine, c[1], c[2], c[3], c[4]))

PosProcess == ProcessUpTo(MaxPosBlocks, PosBlockSizes)

\* a call into the JS engine: r holds the engine after the call and the
\* grains the call started
JsCall(op, arg, r) ==
    /\ engineKind = "js"
    /\ js' = r.j
    /\ jsLog' = r.log
    /\ jsCall' = [op |-> op, arg |-> arg, pre |-> js]
    /\ UNCHANGED <<engineVars, outputL, outputR, hung, call, spawnLog, engineKind,
                   wkVars, env, appVars>>

JsCommand(op, arg, r) ==
    /\ cmdCount < MaxPosCmds
    /\ cmdCount' = cmdCount + 1
    /\ JsCall(op, arg, r)

DoJsLoadSample == JsCommand("loadSample", <<>>, [j |-> JsLoadSample(js), log |-> <<>>])

DoJsStart == \E random \in JsRandoms : JsCommand("start", <<>>, JsStart(js, random))

DoJsStop == JsCommand("stop", <<>>, [j |-> JsStop(js), log |-> <<>>])

DoJsUpdateParams ==
    \E p \in PosParamRecords :
        JsCommand("updateParams", p, [j |-> JsUpdateParams(js, p), log |-> <<>>])

DoJsFreeze == JsCommand("freeze", <<>>, [j |-> JsFreeze(js), log |-> <<>>])

DoJsUnfreeze == JsCommand("unfreeze", <<>>, [j |-> JsUnfreeze(js), log |-> <<>>])

DoJsStartDrift ==
    \E c \in {c \in PosDriftCalls : c[1]} :
        JsCommand("startDrift", c[2], [j |-> JsStartDrift(js, c[2]), log |-> <<>>])

DoJsStopDrift == JsCommand("stopDrift", <<>>, [j |-> JsStopDrift(js), log |-> <<>>])

\* the timer of schedule() fires, one period after it was set
DoJsTimer ==
    /\ js.schedulerId
    /\ js.currentTime < MaxJsTime
    /\ \E random \in JsRandoms :
         JsCall("schedule", <<>>,
                JsSchedule([js EXCEPT !.schedulerId = FALSE,
                                      !.currentTime = js.currentTime + JsTimerPeriod],
                           random))
    /\ UNCHANGED cmdCount

\* the AudioContext clock runs on while no timer is pending
DoJsClock ==
    /\ js.ctx
    /\ ~js.schedulerId
    /\ js.currentTime < MaxJsTime
    /\ JsCall("clock", <<>>,
              [j |-> [js EXCEPT !.currentTime = js.currentTime + JsTimerPeriod],
               log |-> <<>>])
    /\ UNCHANGED cmdCount

NextPosition ==
    \/ PosStart
    \/ PosUpdateParams
    \/ PosLoadSampleBuffer
    \/ PosSetFrozen
    \/ PosSetDrift
    \/ PosProcess
    \/ DoJsLoadSample
    \/ DoJsStart
    \/ DoJsStop
    \/ DoJsUpdateParams
    \/ DoJsFreeze
    \/ DoJsUnfreeze
    \/ DoJsStartDrift
    \/ DoJsStopDrift
    \/ DoJsTimer
    \/ DoJsClock

SpecPosition == InitPosition /\ [][NextPosition]_vars

-----------------------------------------------------------------------------
(* The WASM engine inside its worklet: the bridge's init() creates the     *)
(* worklet node and posts the initial parameters; the worklet's            *)
(* constructor starts _initWasm, which creates the engine some time later; *)
(* the render thread calls process() once per quantum from the start.      *)

InitWorklet ==
    /\ EngineInit
    /\ engineKind = "wasm"
    /\ JsEngineInit
    /\ EnvIdle
    /\ AppIdle
    /\ worklet = [engine |-> FALSE, isReady |-> FALSE, frameCount |-> 0]
    /\ toWorklet = <<[type |-> "params", arg |-> WkInitialParams]>>
    /\ toMain = <<>>
    /\ bridge = [isReady |-> FALSE, grainQueue |-> <<>>]
    /\ stored = <<>>
    /\ delivered = <<>>
    /\ discarded = <<>>

\* the bridge posts a message of the host (loadSample, start)
HostPost ==
    /\ cmdCount < MaxHostMsgs
    /\ \E msg \in HostMessages : toWorklet' = Append(toWorklet, msg)
    /\ cmdCount' = cmdCount + 1
    /\ UNCHANGED <<engineVars, outputL, outputR, hung, call, spawnLog, engineKind,
                   jsVars, worklet, toMain, bridge, stored, delivered, discarded, env, appVars>>

\* _initWasm gets to the end: new GrainEngine, init(sampleRate), 'ready'
WkInitWasm ==
    /\ ~worklet.engine
    /\ worklet' = [worklet EXCEPT !.engine = TRUE, !.isReady = TRUE]
    /\ SetEngine(InitEngine)
    /\ call' = Seen("init", <<>>)
    /\ toMain' = Append(toMain, [type |-> "ready"])
    /\ UNCHANGED <<outputL, outputR, hung, spawnLog, cmdCount, engineKind, jsVars,
                   toWorklet, bridge, stored, delivered, discarded, env, appVars>>

\* the worklet's port delivers the next message to _handleMessage, which
\* returns at once while there is no engine
WkHandleMessage ==
    /\ toWorklet # <<>>
    /\ toWorklet' = Tail(toWorklet)
    /\ IF worklet.engine
       THEN /\ SetEngine(HandleMessage(Engine, Head(toWorklet)))
            /\ call' = Seen(Head(toWorklet).type, Head(toWorklet).arg)
            /\ UNCHANGED discarded
       ELSE /\ discarded' = Append(discarded, Head(toWorklet))
            /\ UNCHANGED <<engineVars, call>>
    /\ UNCHANGED <<outputL, outputR, hung, spawnLog, cmdCount, engineKind, jsVars,
                   worklet, toMain, bridge, stored, delivered, env, appVars>>

\* GrainProcessor.process with the engine ready: engine.process on one
\* render quantum, frameCount++, the drain
WkProcessReady ==
    \E r \in {Process(Engine, 128)} :
        \E d \in {DrainEvents(r.e, worklet.frameCount + 1)} :
            /\ SetEngine(d.e)
            /\ outputL' = r.outputL
            /\ outputR' = r.outputR
            /\ hung' = r.hung
            /\ spawnLog' = r.log
            /\ call' = Seen("process", 128)
            /\ worklet' = [worklet EXCEPT !.frameCount = worklet.frameCount + 1]
            /\ toMain' = toMain \o d.posted
            /\ stored' = stored \o SubSeq(r.e.grainEvents, Len(grainEvents_) + 1,
                                          Len(r.e.grainEvents))

\* GrainProcessor.process: returns at once until the engine is ready
WkProcess ==
    /\ ~hung
    /\ worklet.frameCount < MaxWkBlocks
    /\ IF ~worklet.isReady \/ ~worklet.engine
       THEN UNCHANGED <<engineVars, outputL, outputR, hung, call, spawnLog, worklet,
                        toMain, stored>>
       ELSE WkProcessReady
    /\ UNCHANGED <<cmdCount, engineKind, jsVars, toWorklet, bridge, delivered,
                   discarded, env, appVars>>

\* the bridge's port delivers the next message of the worklet
BridgeReceive ==
    /\ toMain # <<>>
    /\ toMain' = Tail(toMain)
    /\ bridge' = BridgeOnMessage(bridge, Head(toMain))
    /\ UNCHANGED <<engineVars, outputL, outputR, hung, call, spawnLog, cmdCount,
                   engineKind, jsVars, worklet, toWorklet, stored, delivered,
                   discarded, env, appVars>>

\* the UI polls the grain events
UiPoll ==
    /\ bridge.grainQueue # <<>>
    /\ bridge' = PollGrainEvents(bridge).b
    /\ delivered' = delivered \o PollGrainEvents(bridge).events
    /\ UNCHANGED <<engineVars, outputL, outputR, hung, call, spawnLog, cmdCount,
                   engineKind, jsVars, worklet, toWorklet, toMain, stored,
                   discarded, env, appVars>>

NextWorklet ==
    \/ HostPost
    \/ WkInitWasm
    \/ WkHandleMessage
    \/ WkProcess
    \/ BridgeReceive
    \/ UiPoll

SpecWorklet == InitWorklet /\ [][NextWorklet]_vars

-----------------------------------------------------------------------------
(* The envelope of one grain: spawnGrain stores the attack and release     *)
(* ratios and the curve, processGrain reads the envelope as envPhase runs  *)
(* from 0 to 1.                                                            *)

InitEnvelope ==
    /\ EngineInit
    /\ engineKind = "wasm"
    /\ JsEngineInit
    /\ WorkletIdle
    /\ AppIdle
    /\ \E attack \in EnvRatios, release \in EnvRatios, curve \in BOOLEAN :
          env = [attackRatio |-> attack, releaseRatio |-> release,
                 exponentialEnv |-> curve, envPhase |-> 0, value |-> 0,
                 computed |-> FALSE]

\* computeEnvelope(grain) at one phase of the grain
EnvelopeAt ==
    /\ \E phase \in EnvPhases(env.attackRatio, env.releaseRatio) :
          env' = [env EXCEPT
                    !.envPhase = phase,
                    !.value = ComputeEnvelope([env EXCEPT !.envPhase = phase]),
                    !.computed = TRUE]
    /\ UNCHANGED <<engineVars, outputL, outputR, hung, call, spawnLog, cmdCount,
                   engineKind, jsVars, wkVars, appVars>>

NextEnvelope == EnvelopeAt

SpecEnvelope == InitEnvelope /\ [][NextEnvelope]_vars

-----------------------------------------------------------------------------
(* Two engine instances.  The host gives the first instance a history of   *)
(* calls; a second instance is constructed at some moment of that history  *)
(* and is given the same calls from the beginning, each some time after    *)
(* the first instance got it.  The PRNG state, the grain pool and the      *)
(* clock are members of the instance: constructing an instance takes       *)
(* nothing from an instance that exists already.                           *)

\* calls per history
MaxTwinCalls == 4

\* a cloud with random start positions, reversals and pans
TwinParams ==
    [DefaultParams EXCEPT !.grainSize = 500, !.density = 200, !.spread = FP,
                          !.grainReversalChance = 5000, !.panSpread = 5000]
\* the calls a history is made of, listed
TwinCalls ==
    <<[op |-> "start", arg |-> <<>>],
     [op |-> "updateParams", arg |-> TwinParams],
     [op |-> "sampleBuffer", arg |-> 1000],
     [op |-> "setFrozen", arg |-> <<TRUE, 2500>>],
     [op |-> "setDrift", arg |-> <<TRUE, 5000, FP, 5000>>],
     [op |-> "process", arg |-> 128]>>

\* a call that is not process() leaves the output buffers as they were
Returned0(e, prev) ==
    [e |-> e, outputL |-> prev.outputL, outputR |-> prev.outputR,
     log |-> <<>>, hung |-> FALSE]

\* one call c of the host on the instance e, prev the result of the call
\* before it
ApplyCall(e, prev, c) ==
    CASE c.op = "start" -> Returned0(Start(e), prev)
      [] c.op = "updateParams" -> Returned0(UpdateParams(e, c.arg), prev)
      [] c.op = "sampleBuffer" -> Returned0(LoadSampleBuffer(e, c.arg), prev)
      [] c.op = "setFrozen" -> Returned0(SetFrozen(e, c.arg[1], c.arg[2]), prev)
      [] c.op = "setDrift" ->
            Returned0(SetDrift(e, c.arg[1], c.arg[2], c.arg[3], c.arg[4]), prev)
      [] c.op = "process" -> Process(e, c.arg)

\* an instance whose PRNG state is a static shared with the other instance
NewInstanceSharedRng(other) == [InitEngine EXCEPT !.rngState = other.rngState]

\* new GrainEngine() and init() while another instance exists
NewInstance(other) == InitEngine

InitTwin ==
    /\ EngineInit
    /\ engineKind = "wasm"
    /\ JsEngineInit
    /\ WorkletIdle
    /\ EnvIdle
    /\ BootIdle /\ HistIdle /\ SnapIdle /\ RevIdle
    /\ twin = [on |-> FALSE, e |-> InitEngine, last |-> Returned0(InitEngine,
                  [outputL |-> <<>>, outputR |-> <<>>]),
               createdAt |-> 0, trace |-> <<>>, replayed |-> <<>>]

\* the host calls the first instance
TwinCall ==
    /\ ~hung
    /\ Len(twin.trace) < MaxTwinCalls
    /\ \E k \in DOMAIN TwinCalls :
         \E c \in {TwinCalls[k]} :
         \E r \in {ApplyCall(Engine, [outputL |-> outputL, outputR |-> outputR], c)} :
            /\ SetEngine(r.e)
            /\ outputL' = r.outputL
            /\ outputR' = r.outputR
            /\ hung' = r.hung
            /\ spawnLog' = r.log
            /\ call' = Seen(c.op, c.arg)
            /\ twin' = [twin EXCEPT !.trace = Append(@, [call |-> c, result |-> r])]
    /\ cmdCount' = cmdCount + 1
    /\ UNCHANGED <<engineKind, jsVars, wkVars, env, boot, hist, snap, rev>>

\* the second instance is constructed
TwinCreate ==
    /\ ~twin.on
    /\ twin' = [twin EXCEPT !.on = TRUE, !.e = NewInstance(Engine),
                            !.createdAt = Len(twin.trace)]
    /\ UNCHANGED <<engineVars, outputL, outputR, hung, call, spawnLog, cmdCount,
                   engineKind, jsVars, wkVars, env, boot, hist, snap, rev>>

\* the host gives the second instance the next call of the history
TwinReplay ==
    /\ twin.on
    /\ Len(twin.replayed) < Len(twin.trace)
    /\ \E c \in {twin.trace[Len(twin.replayed) + 1].call} :
         \E r \in {ApplyCall(twin.e, twin.last, c)} :
            twin' = [twin EXCEPT !.e = r.e, !.last = r,
                                 !.replayed = Append(@, [call |-> c, result |-> r])]
    /\ UNCHANGED <<engineVars, outputL, outputR, hung, call, spawnLog, cmdCount,
                   engineKind, jsVars, wkVars, env, boot, hist, snap, rev>>

NextTwin ==
    \/ TwinCall
    \/ TwinCreate
    \/ TwinReplay

SpecTwin == InitTwin /\ [][NextTwin]_vars

-----------------------------------------------------------------------------
(* Engine creation (createEngine, AudioEngineWASM.init, the worklet's      *)
(* _initWasm).  The browser is a record of what it supports and of which   *)
(* steps succeed in it; boot.step is the position of createEngine,         *)
(* boot.worklet that of the worklet's _initWasm, boot.port the messages    *)
(* the worklet has posted and the bridge has not handled yet.              *)

\* the answers of fetch('/wasm/grain_engine.wasm')
FetchResults == {"ok", "missing", "html"}

Browsers ==
    [audioWorklet : BOOLEAN, webAssembly : BOOLEAN, fetch : FetchResults,
     compile : BOOLEAN, addModule : BOOLEAN, instantiate : BOOLEAN]

\* the WASM engine can be brought up in this browser
WasmAvailable(browser) ==
    /\ browser.audioWorklet
    /\ browser.webAssembly
    /\ browser.fetch = "ok"
    /\ browser.compile
    /\ browser.addModule
    /\ browser.instantiate

\* createEngine: the support checks of the try block
CheckSupport(browser) ==
    IF ~browser.audioWorklet \/ ~browser.webAssembly THEN "catch" ELSE "fetch"

\* init(): fetch the binary; a failed response and an HTML response throw
FetchWasm(browser) == IF browser.fetch = "ok" THEN "compile" ELSE "catch"

\* init(): WebAssembly.compile
CompileWasm(browser) == IF browser.compile THEN "addModule" ELSE "catch"

\* init(): audioWorklet.addModule
AddModule(browser) == IF browser.addModule THEN "createNode" ELSE "catch"

\* _initWasm: 'ready' after the engine is created, 'error' from the catch
InitWasm(browser) == IF browser.instantiate THEN "ready" ELSE "error"

\* port.onmessage of the bridge: 'ready' sets isReady, 'error' is logged
BridgeBootMessage(b, msg) ==
    IF msg = "ready" THEN [b EXCEPT !.isReady = TRUE]
    ELSE [b EXCEPT !.errorsLogged = @ + 1]

InitBoot ==
    /\ EngineInit
    /\ engineKind = "none"
    /\ JsEngineInit
    /\ WorkletIdle
    /\ EnvIdle
    /\ TwinIdle /\ HistIdle /\ SnapIdle /\ RevIdle
    /\ \E browser \in Browsers :
          boot = [step |-> "check", browser |-> browser, worklet |-> "none",
                  port |-> <<>>, bridge |-> [isReady |-> FALSE, errorsLogged |-> 0]]

BootVarsUnchanged ==
    UNCHANGED <<engineVars, outputL, outputR, hung, call, spawnLog, cmdCount,
                jsVars, wkVars, env, twin, hist, snap, rev>>

BootCheckSupport ==
    /\ boot.step = "check"
    /\ boot' = [boot EXCEPT !.step = CheckSupport(boot.browser)]
    /\ UNCHANGED engineKind
    /\ BootVarsUnchanged

BootFetch ==
    /\ boot.step = "fetch"
    /\ boot' = [boot EXCEPT !.step = FetchWasm(boot.browser)]
    /\ UNCHANGED engineKind
    /\ BootVarsUnchanged

BootCompile ==
    /\ boot.step = "compile"
    /\ boot' = [boot EXCEPT !.step = CompileWasm(boot.browser)]
    /\ UNCHANGED engineKind
    /\ BootVarsUnchanged

BootAddModule ==
    /\ boot.step = "addModule"
    /\ boot' = [boot EXCEPT !.step = AddModule(boot.browser)]
    /\ UNCHANGED engineKind
    /\ BootVarsUnchanged

\* new AudioWorkletNode: the worklet's constructor starts _initWasm; init()
\* goes on to build the FX chain and returns without waiting for 'ready'
BootCreateNode ==
    /\ boot.step = "createNode"
    /\ boot' = [boot EXCEPT !.step = "initDone", !.worklet = "initWasm"]
    /\ UNCHANGED engineKind
    /\ BootVarsUnchanged

\* createEngine: `return { engine, type: 'wasm' }` after init() resolved
BootReturnWasm ==
    /\ boot.step = "initDone"
    /\ boot' = [boot EXCEPT !.step = "done"]
    /\ engineKind' = "wasm"
    /\ BootVarsUnchanged

\* createEngine: the catch block and the fallback to the JS engine
BootFallback ==
    /\ boot.step = "catch"
    /\ boot' = [boot EXCEPT !.step = "done"]
    /\ engineKind' = "js"
    /\ BootVarsUnchanged

\* the worklet's _initWasm completes, one way or the other
BootInitWasm ==
    /\ boot.worklet = "initWasm"
    /\ boot' = [boot EXCEPT !.worklet = InitWasm(boot.browser),
                            !.port = Append(@, InitWasm(boot.browser))]
    /\ UNCHANGED engineKind
    /\ BootVarsUnchanged

\* the bridge handles a message of the worklet
BootBridgeReceive ==
    /\ boot.port # <<>>
    /\ boot' = [boot EXCEPT !.bridge = BridgeBootMessage(@, Head(boot.port)),
                            !.port = Tail(@)]
    /\ UNCHANGED engineKind
    /\ BootVarsUnchanged

NextBoot ==
    \/ BootCheckSupport
    \/ BootFetch
    \/ BootCompile
    \/ BootAddModule
    \/ BootCreateNode
    \/ BootReturnWasm
    \/ BootFallback
    \/ BootInitWasm
    \/ BootBridgeReceive

SpecBoot == InitBoot /\ [][NextBoot]_vars

-----------------------------------------------------------------------------
(* The App's parameter record and its undo history (App.tsx).  Of the      *)
(* parameter record the model keeps a knob (grainSize), a button           *)
(* (envelopeCurve), the XY pad's position and the LFO targets.  hist holds *)
(* the React state params, history, historyIndex and the ref               *)
(* isUndoingRef; lastOp, undoAfter, before, beforeChange and pushed record *)
(* what the last handler was and what it and the last change saw.  The     *)
(* timeout handleUndo and handleRedo set is queued before any later input  *)
(* event, so no handler runs between an undo and its timeout.              *)

\* "Limit history to 50 states"
MAX_HISTORY == 50
\* user operations per behaviour
MaxHistOps == 4

AppDefaultParams ==
    [grainSize |-> 1000, envelopeCurve |-> 0, position |-> 5000, lfoTargets |-> {}]
KnobValues == {500, 2000}
CurveValues == {0, 1}
XyPositions == {2500}
LfoTargetNames == {"pitch"}
RandomParams ==
    {[grainSize |-> 3000, envelopeCurve |-> 1, position |-> 7500,
      lfoTargets |-> {"pitch"}]}
PresetParams ==
    {[grainSize |-> 4000, envelopeCurve |-> 0, position |-> 0, lfoTargets |-> {}]}

\* handleParamChange: newParams = { ...params, [key]: value }
HandleParamChange(params, key, value) == [params EXCEPT ![key] = value]

\* toggleLfoTarget
ToggleLfoTarget(params, target) ==
    HandleParamChange(params, "lfoTargets",
                      IF target \in params.lfoTargets
                      THEN params.lfoTargets \ {target}
                      ELSE params.lfoTargets \cup {target})

\* handleXyPadChange with no parameter mapped to Y
XyPadChange(params, x) == [params EXCEPT !.position = x]

\* a push that keeps the entries after historyIndex
PushHistoryKeepRedo(h, newParams) ==
    LET appended == Append(h.history, newParams)
        newHistory == IF Len(appended) > MAX_HISTORY THEN Tail(appended) ELSE appended
    IN  [h EXCEPT !.history = newHistory,
                  !.historyIndex = Min(Len(newHistory) - 1, MAX_HISTORY - 1)]

\* the push of handleKnobDragEnd and handleRandomize: slice, push, shift
PushHistory(h, newParams) ==
    LET appended == Append(SubSeq(h.history, 1, h.historyIndex + 1), newParams)
        newHistory == IF Len(appended) > MAX_HISTORY THEN Tail(appended) ELSE appended
    IN  [h EXCEPT !.history = newHistory,
                  !.historyIndex = Min(Len(newHistory) - 1, MAX_HISTORY - 1)]

\* handleKnobDragEnd
KnobDragEnd(h, finalParams) ==
    IF ~h.isUndoing THEN PushHistory(h, finalParams) ELSE h

\* handleUndo, for historyIndex > 0 (history is indexed from 0 in the code)
Undo(h) ==
    [h EXCEPT !.isUndoing = TRUE,
              !.historyIndex = h.historyIndex - 1,
              !.params = h.history[h.historyIndex]]

\* handleRedo, for historyIndex < history.length - 1
Redo(h) ==
    [h EXCEPT !.isUndoing = TRUE,
              !.historyIndex = h.historyIndex + 1,
              !.params = h.history[h.historyIndex + 2]]

\* handlePresetSelect
PresetSelect(h, presetParams) ==
    [h EXCEPT !.params = presetParams, !.history = <<presetParams>>,
              !.historyIndex = 0]

\* the history after n - 1 drags of the knob from the default record
DragHistory(n) ==
    [i \in 1 .. n |->
        IF i = 1 THEN AppDefaultParams
        ELSE [AppDefaultParams EXCEPT !.grainSize = IF i % 2 = 0 THEN 500 ELSE 2000]]

\* the App after mount, and after 48 and 49 drags of the knob
InitHistory ==
    /\ EngineInit
    /\ engineKind = "js"
    /\ JsEngineInit
    /\ WorkletIdle
    /\ EnvIdle
    /\ TwinIdle /\ BootIdle /\ SnapIdle /\ RevIdle
    /\ \E n \in {1, MAX_HISTORY - 1, MAX_HISTORY} :
          hist = [on |-> TRUE, params |-> DragHistory(n)[n],
                  history |-> DragHistory(n), historyIndex |-> n - 1,
                  isUndoing |-> FALSE, ops |-> 0,
                  lastOp |-> "mount", undoAfter |-> "mount",
                  before |-> DragHistory(n)[n],
                  beforeChange |-> DragHistory(n)[n],
                  pushed |-> [history |-> DragHistory(n), historyIndex |-> n - 1]]

\* the operations of the user that change a parameter
ChangeOps == {"drag", "button", "xyPad", "lfoTarget", "randomize"}

\* a handler op of the user takes the App from hist to h
HistStep(op, h) ==
    /\ hist.ops < MaxHistOps
    /\ ~hist.isUndoing
    /\ hist' = [h EXCEPT !.ops = hist.ops + 1, !.lastOp = op,
                         !.undoAfter = hist.lastOp, !.before = hist.params,
                         !.beforeChange = IF op \in ChangeOps THEN hist.params
                                          ELSE hist.beforeChange,
                         !.pushed = [history |-> hist.history,
                                     historyIndex |-> hist.historyIndex]]
    /\ UNCHANGED <<engineVars, outputL, outputR, hung, call, spawnLog, cmdCount,
                   engineKind, jsVars, wkVars, env, twin, boot, snap, rev>>

\* a knob is dragged to a value and released
HistKnobDrag ==
    \E value \in KnobValues :
        HistStep("drag",
                 KnobDragEnd([hist EXCEPT !.params =
                                 HandleParamChange(hist.params, "grainSize", value)],
                             HandleParamChange(hist.params, "grainSize", value)))

\* a button sets a parameter through handleParamChange
HistButton ==
    \E value \in CurveValues :
        /\ value # hist.params.envelopeCurve
        /\ HistStep("button",
                    [hist EXCEPT !.params =
                        HandleParamChange(hist.params, "envelopeCurve", value)])

HistXyPad ==
    \E x \in XyPositions :
        /\ x # hist.params.position
        /\ HistStep("xyPad", [hist EXCEPT !.params = XyPadChange(hist.params, x)])

HistToggleLfoTarget ==
    \E target \in LfoTargetNames :
        HistStep("lfoTarget", [hist EXCEPT !.params = ToggleLfoTarget(hist.params, target)])

\* handleRandomize: push, setParams
HistRandomize ==
    \E newParams \in RandomParams :
        HistStep("randomize", [PushHistory(hist, newParams) EXCEPT !.params = newParams])

HistUndo ==
    /\ hist.historyIndex > 0
    /\ HistStep("undo", Undo(hist))

HistRedo ==
    /\ hist.historyIndex < Len(hist.history) - 1
    /\ HistStep("redo", Redo(hist))

HistPresetSelect ==
    \E presetParams \in PresetParams : HistStep("preset", PresetSelect(hist, presetParams))

\* setTimeout(() => { isUndoingRef.current = false; }, 0)
HistTimer ==
    /\ hist.isUndoing
    /\ hist' = [hist EXCEPT !.isUndoing = FALSE]
    /\ UNCHANGED <<engineVars, outputL, outputR, hung, call, spawnLog, cmdCount,
                   engineKind, jsVars, wkVars, env, twin, boot, snap, rev>>

NextHistory ==
    \/ HistKnobDrag
    \/ HistButton
    \/ HistXyPad
    \/ HistToggleLfoTarget
    \/ HistRandomize
    \/ HistUndo
    \/ HistRedo
    \/ HistPresetSelect
    \/ HistTimer

SpecHistory == InitHistory /\ [][NextHistory]_vars

-----------------------------------------------------------------------------
(* The IAudioEngine calls for freeze and drift on the WASM bridge          *)
(* (AudioEngineWASM), which mirrors the flags and posts a message to the   *)
(* worklet, next to the same freeze calls on a JS engine (AudioEngine)     *)
(* constructed with the same parameters.                                   *)

\* calls per behaviour
MaxBridgeCalls == 4

\* positions the host sets, drift bases, speeds and return tendencies
BridgePositions == {0, 2500, 7500}
DriftBases == {0, 2500}
DriftSpeeds == {0, 2500, 15000}
DriftTendencies == {0, 7500}

\* AudioEngineWASM.updateParams: keep the record, post it
BridgeUpdateParams(b, newParams) ==
    [b |-> [b EXCEPT !.params = newParams],
     msg |-> [type |-> "params", arg |-> newParams]]

\* AudioEngineWASM.freeze
BridgeFreeze(b) ==
    [b |-> [b EXCEPT !.frozen = TRUE],
     msg |-> [type |-> "freeze", arg |-> <<TRUE, b.params.position>>]]

\* AudioEngineWASM.unfreeze
BridgeUnfreeze(b) ==
    [b |-> [b EXCEPT !.frozen = FALSE],
     msg |-> [type |-> "freeze", arg |-> <<FALSE, 0>>]]

\* AudioEngineWASM.toggleFreeze
BridgeToggleFreeze(b) == IF b.frozen THEN BridgeUnfreeze(b) ELSE BridgeFreeze(b)

\* AudioEngine.toggleFreeze
JsToggleFreeze(j) == IF j.isFrozen THEN JsUnfreeze(j) ELSE JsFreeze(j)

\* AudioEngineWASM.startDrift(basePosition)
BridgeStartDrift(b, basePosition) ==
    [b |-> [b EXCEPT !.drifting = TRUE, !.driftPos = basePosition],
     msg |-> [type |-> "drift",
              arg |-> <<TRUE, basePosition, b.driftSpd, b.driftReturn>>]]

\* AudioEngineWASM.stopDrift
BridgeStopDrift(b) ==
    [b |-> [b EXCEPT !.drifting = FALSE],
     msg |-> [type |-> "drift", arg |-> <<FALSE, 5000, 5000, 3000>>]]

\* AudioEngineWASM.setDriftSpeed and setDriftReturnTendency
BridgeSetDriftSpeed(b, speed) == [b EXCEPT !.driftSpd = Clamp(speed, 0, FP)]
BridgeSetDriftReturnTendency(b, tendency) ==
    [b EXCEPT !.driftReturn = Clamp(tendency, 0, FP)]

\* both engines constructed with the default parameters; the worklet has
\* its engine and has handled the initial parameters
InitBridge ==
    /\ EngineInit
    /\ engineKind = "wasm"
    /\ JsEngineInit
    /\ EnvIdle
    /\ AppIdle
    /\ worklet = [engine |-> TRUE, isReady |-> TRUE, frameCount |-> 0]
    /\ toWorklet = <<>>
    /\ toMain = <<>>
    /\ bridge = [isReady |-> TRUE, grainQueue |-> <<>>, params |-> DefaultParams,
                 frozen |-> FALSE, drifting |-> FALSE, driftPos |-> 5000,
                 driftSpd |-> 5000, driftReturn |-> 3000]
    /\ stored = <<>>
    /\ delivered = <<>>
    /\ discarded = <<>>

\* a call of the host on the bridge (r.b the bridge after it, r.msg the
\* message it posts) and on the JS engine (j the JS engine after it)
BridgeCall(op, arg, r, j) ==
    /\ cmdCount < MaxBridgeCalls
    /\ cmdCount' = cmdCount + 1
    /\ bridge' = r.b
    /\ toWorklet' = Append(toWorklet, r.msg)
    /\ js' = j
    /\ jsCall' = [op |-> op, arg |-> arg, pre |-> js]
    /\ UNCHANGED <<engineVars, outputL, outputR, hung, call, spawnLog, engineKind,
                   jsLog, worklet, toMain, stored, delivered, discarded, env, appVars>>

BrUpdateParams ==
    \E position \in BridgePositions :
        \E p \in {[DefaultParams EXCEPT !.position = position]} :
            BridgeCall("updateParams", p, BridgeUpdateParams(bridge, p),
                       JsUpdateParams(js, p))

BrFreeze == BridgeCall("freeze", <<>>, BridgeFreeze(bridge), JsFreeze(js))

BrUnfreeze == BridgeCall("unfreeze", <<>>, BridgeUnfreeze(bridge), JsUnfreeze(js))

BrToggleFreeze ==
    BridgeCall("toggleFreeze", <<>>, BridgeToggleFreeze(bridge), JsToggleFreeze(js))

BrStartDrift ==
    \E basePosition \in DriftBases :
        BridgeCall("startDrift", basePosition, BridgeStartDrift(bridge, basePosition),
                   JsStartDrift(js, basePosition))

BrStopDrift == BridgeCall("stopDrift", <<>>, BridgeStopDrift(bridge), JsStopDrift(js))

\* setDriftSpeed and setDriftReturnTendency post nothing
BrSetDriftSpeed ==
    /\ cmdCount < MaxBridgeCalls
    /\ cmdCount' = cmdCount + 1
    /\ \E speed \in DriftSpeeds : bridge' = BridgeSetDriftSpeed(bridge, speed)
    /\ UNCHANGED <<engineVars, outputL, outputR, hung, call, spawnLog, engineKind,
                   jsVars, worklet, toWorklet, toMain, stored, delivered, discarded,
                   env, appVars>>

BrSetDriftReturnTendency ==
    /\ cmdCount < MaxBridgeCalls
    /\ cmdCount' = cmdCount + 1
    /\ \E tendency \in DriftTendencies :
          bridge' = BridgeSetDriftReturnTendency(bridge, tendency)
    /\ UNCHANGED <<engineVars, outputL, outputR, hung, call, spawnLog, engineKind,
                   jsVars, worklet, toWorklet, toMain, stored, delivered, discarded,
                   env, appVars>>

NextBridge ==
    \/ BrUpdateParams
    \/ BrFreeze
    \/ BrUnfreeze
    \/ BrToggleFreeze
    \/ BrStartDrift
    \/ BrStopDrift
    \/ BrSetDriftSpeed
    \/ BrSetDriftReturnTendency
    \/ WkHandleMessage

SpecBridge == InitBridge /\ [][NextBridge]_vars

-----------------------------------------------------------------------------
(* The scheduler of the JS engine under the calls of its public interface  *)
(* in any order: init(), the three ways to load a buffer, start(), stop(), *)
(* updateParams(), and the timer schedule() sets for itself.               *)

\* AudioEngine.createTestBuffer(): nothing without an AudioContext
JsCreateTestBuffer(j) == IF ~j.ctx THEN j ELSE [j EXCEPT !.buffer = TRUE]

\* AudioEngine.loadFromFloat32Data(data)
JsLoadFromFloat32Data(j) ==
    IF ~j.ctx THEN j ELSE [j EXCEPT !.buffer = TRUE, !.params.position = 0]

\* the App's mount effect: new AudioEngine(params), createTestBuffer()
InitJsScheduler ==
    /\ EngineInit
    /\ engineKind = "js"
    /\ js = JsCreateTestBuffer(JsInitEngine(DefaultParams))
    /\ jsCall = [op |-> "createTestBuffer", arg |-> <<>>,
                 pre |-> JsInitEngine(DefaultParams)]
    /\ jsLog = <<>>
    /\ WorkletIdle
    /\ EnvIdle
    /\ AppIdle

DoJsInit == JsCommand("init", <<>>, [j |-> JsInit(js), log |-> <<>>])

DoJsCreateTestBuffer ==
    JsCommand("createTestBuffer", <<>>, [j |-> JsCreateTestBuffer(js), log |-> <<>>])

DoJsLoadFromFloat32Data ==
    JsCommand("loadFromFloat32Data", <<>>,
              [j |-> JsLoadFromFloat32Data(js), log |-> <<>>])

NextJsScheduler ==
    \/ DoJsInit
    \/ DoJsCreateTestBuffer
    \/ DoJsLoadFromFloat32Data
    \/ DoJsLoadSample
    \/ DoJsStart
    \/ DoJsStop
    \/ DoJsUpdateParams
    \/ DoJsTimer
    \/ DoJsClock

SpecJsScheduler == InitJsScheduler /\ [][NextJsScheduler]_vars

-----------------------------------------------------------------------------
(* One grain from spawnGrain to its deactivation.  The engine is given a   *)
(* sample buffer and parameters and started; the first process() call      *)
(* advances the smoothers and spawns the grain, and processGrain is then   *)
(* followed frame by frame.                                                *)

\* lengths of the sample buffer, in samples
RevBufferLengths == {50, 400, 1000}
RevParams ==
    {[DefaultParams EXCEPT !.grainSize = g, !.pitch = p, !.position = pos,
                           !.spread = sp, !.grainReversalChance = c] :
        g \in {1000, 3000}, p \in {-12 * FP, 0, 12 * FP}, pos \in {0, 5000, FP},
        sp \in {0, FP}, c \in {5000, FP}}

\* the grain the first scheduling pass of a process() call spawns
FirstSpawn(e, numFrames) ==
    SpawnGrain(AdvanceDrift(AdvanceSmoothers(e, numFrames), numFrames))

\* the position processGrain reads at lies in the buffer
ReadInBounds(grain, sampleBufferLength) ==
    grain.position >= 0 /\ grain.position < sampleBufferLength * FP

InitReverse ==
    /\ EngineInit
    /\ engineKind = "wasm"
    /\ JsEngineInit
    /\ WorkletIdle
    /\ EnvIdle
    /\ TwinIdle /\ BootIdle /\ HistIdle /\ SnapIdle
    /\ \E len \in RevBufferLengths, params \in RevParams, frozen \in BOOLEAN :
         rev = [on |-> TRUE, spawned |-> FALSE,
                e |-> Start(SetFrozen(UpdateParams(LoadSampleBuffer(InitEngine, len),
                                                   params),
                                      frozen, params.position))]

\* process(): the scheduling loop spawns the grain
RevSpawn ==
    /\ rev.on /\ ~rev.spawned
    /\ \E sp \in {FirstSpawn(rev.e, 128)} :
         rev' = [on |-> TRUE, spawned |-> TRUE,
                 grain |-> sp.e.grains[sp.slot],
                 start |-> sp.e.grains[sp.slot].position,
                 len |-> rev.e.sampleBufferLength,
                 frames |-> 0,
                 readsInBounds |-> TRUE]
    /\ UNCHANGED <<engineVars, outputL, outputR, hung, call, spawnLog, cmdCount,
                   engineKind, jsVars, wkVars, env, twin, boot, hist, snap>>

\* process(): one frame of the grain, `if (!grain.active) continue;`
RevFrame ==
    /\ rev.on /\ rev.spawned /\ rev.grain.active
    /\ rev' = [rev EXCEPT
                 !.grain = ProcessGrain(rev.grain, rev.len),
                 !.frames = @ + 1,
                 !.readsInBounds = @ /\ ReadInBounds(rev.grain, rev.len)]
    /\ UNCHANGED <<engineVars, outputL, outputR, hung, call, spawnLog, cmdCount,
                   engineKind, jsVars, wkVars, env, twin, boot, hist, snap>>

NextReverse ==
    \/ RevSpawn
    \/ RevFrame

SpecReverse == InitReverse /\ [][NextReverse]_vars

-----------------------------------------------------------------------------
(* Harmonic lock (types.ts snapPitchToScale and the App's pitch handlers). *)
(* Pitches are whole semitones.                                            *)

ScaleTypes == {"chromatic", "major", "minor", "pentaMajor", "pentaMinor"}
\* scale intervals in semitones from the root
SCALE_INTERVALS ==
    [scale \in ScaleTypes |->
        CASE scale = "chromatic" -> <<0, 1, 2, 3, 4, 5, 6, 7, 8, 9, 10, 11>>
          [] scale = "major" -> <<0, 2, 4, 5, 7, 9, 11>>
          [] scale = "minor" -> <<0, 2, 3, 5, 7, 8, 10>>
          [] scale = "pentaMajor" -> <<0, 2, 4, 7, 9>>
          [] scale = "pentaMinor" -> <<0, 3, 5, 7, 10>>]
\* the pitches of the knob and of the XY pad
SnapPitches == -24 .. 24

\* JavaScript's a % d, which has the sign of a (d > 0)
JsRem(a, d) == Sign(a) * (Abs(a) % d)

\* the loop over the intervals from index i on; nearest is nearestInterval
RECURSIVE NearestInterval(_, _, _, _)
NearestInterval(intervals, semitoneInOctave, i, nearest) ==
    IF i > Len(intervals) THEN nearest
    ELSE NearestInterval(intervals, semitoneInOctave, i + 1,
                         IF Abs(semitoneInOctave - intervals[i])
                                < Abs(semitoneInOctave - nearest)
                         THEN intervals[i] ELSE nearest)

\* snapPitchToScale(pitch, scale, 0)
SnapPitchToScale(pitch, scale) ==
    LET octave == pitch \div 12
        semitoneInOctave == (JsRem(pitch, 12) + 12) % 12
    IN  IF scale = "chromatic" THEN pitch
        ELSE octave * 12 + NearestInterval(SCALE_INTERVALS[scale],
                                           semitoneInOctave, 1,
                                           SCALE_INTERVALS[scale][1])

\* the semitone class of the pitch belongs to the scale (root 0)
InScale(pitch, scale) ==
    \E i \in DOMAIN SCALE_INTERVALS[scale] : pitch % 12 = SCALE_INTERVALS[scale][i]

\* the effect on [isHarmonicLockEnabled, scaleType]
HarmonicLockEffect(sn) ==
    IF sn.isHarmonicLockEnabled
    THEN [sn EXCEPT !.pitch = SnapPitchToScale(sn.pitch, sn.scaleType),
                    !.input = sn.pitch,
                    !.computed = TRUE]
    ELSE sn

\* useState(false), useState('major'), DEFAULT_PARAMS
InitSnap ==
    /\ EngineInit
    /\ engineKind = "wasm"
    /\ JsEngineInit
    /\ WorkletIdle
    /\ EnvIdle
    /\ TwinIdle /\ BootIdle /\ HistIdle /\ RevIdle
    /\ snap = [computed |-> FALSE, isHarmonicLockEnabled |-> FALSE,
               scaleType |-> "major", pitch |-> 0, input |-> 0]

SnapUnchanged ==
    UNCHANGED <<engineVars, outputL, outputR, hung, call, spawnLog, cmdCount,
                engineKind, jsVars, wkVars, env, twin, boot, hist, rev>>

\* the lock button, then the effect
ToggleHarmonicLock ==
    /\ "pitch" \in DOMAIN snap
    /\ snap' = HarmonicLockEffect([snap EXCEPT !.isHarmonicLockEnabled = ~@,
                                               !.computed = FALSE])
    /\ SnapUnchanged

\* the scale selector, then the effect
SetScaleType ==
    /\ "pitch" \in DOMAIN snap
    /\ \E scale \in ScaleTypes \ {snap.scaleType} :
         snap' = HarmonicLockEffect([snap EXCEPT !.scaleType = scale,
                                                 !.computed = FALSE])
    /\ SnapUnchanged

\* handlePitchChange: the pitch knob
HandlePitchChange ==
    /\ "pitch" \in DOMAIN snap
    /\ \E val \in SnapPitches :
         snap' = [snap EXCEPT
                    !.pitch = IF snap.isHarmonicLockEnabled
                              THEN SnapPitchToScale(val, snap.scaleType) ELSE val,
                    !.input = val,
                    !.computed = snap.isHarmonicLockEnabled]
    /\ SnapUnchanged

NextSnap ==
    \/ ToggleHarmonicLock
    \/ SetScaleType
    \/ HandlePitchChange

SpecSnap == InitSnap /\ [][NextSnap]_vars

-----------------------------------------------------------------------------
(* Properties *)

\* a process() call has just returned
Returned == call.op = "process" /\ ~hung
\* the engine variables a silent process() call has no reason to touch
silentFrame ==
    <<isPlaying_, nextGrainTime_, sampleBuffer_, sampleBufferLength_, params_, lfo_,
      currentLfoValue_, pitchSmoother_, positionSmoother_, grainSizeSmoother_,
      panSmoother_, grains_, grainEvents_, rngState_, isFrozen_, frozenPosition_,
      isDrifting_, driftPosition_, driftBasePosition_, driftSpeed_,
      driftReturnTendency_>>

\* C1: after each process call returns, the grain pool holds at most 128
\* active grains (and is still the array of 128 slots).
C1_PoolBounded ==
    Returned => /\ Cardinality(ActiveSlots(grains_)) <= MAX_GRAINS
                /\ DOMAIN grains_ = 1 .. MAX_GRAINS
\* a process call whose spawns found the pool full has returned
C1_Witness ==
    /\ Returned
    /\ Cardinality(ActiveSlots(grains_)) = MAX_GRAINS
    /\ \E i \in DOMAIN spawnLog : ~spawnLog[i].hadFree

\* C2: every spawn writes the new grain into an inactive slot if one exists,
\* otherwise into a slot whose samplesRemaining is the minimum over the
\* pool; the new grain is active and no other slot is modified.
C2_SpawnSlot ==
    \A i \in DOMAIN spawnLog :
        /\ spawnLog[i].slot \in 1 .. MAX_GRAINS
        /\ spawnLog[i].hadFree => spawnLog[i].wasFree
        /\ ~spawnLog[i].hadFree => spawnLog[i].wasRemaining = spawnLog[i].leastRemaining
        /\ spawnLog[i].activeAfter
        /\ spawnLog[i].othersKept
\* one call spawned into a free slot and, later, over the grain of a full
\* pool that was not the first of the array
C2_Witness ==
    /\ \E i \in DOMAIN spawnLog : spawnLog[i].hadFree
    /\ \E i \in DOMAIN spawnLog : ~spawnLog[i].hadFree /\ spawnLog[i].slot > 1

\* C3: at the exit of every process call every active grain has
\* 0 <= readPos < bufferLength, with the current sample-buffer length.
C3_ReadPosInBuffer ==
    Returned =>
        \A g \in ActiveSlots(grains_) :
            /\ 0 <= grains_[g].position
            /\ grains_[g].position < sampleBufferLength_ * FP

\* C4: each spawn advances nextSpawnTime by at least 5 ms (0.005 s).
C4_IntervalFloor ==
    \A i \in DOMAIN spawnLog : spawnLog[i].density >= (5 * FP) \div 1000

\* C5: every process call returns (the scheduling loop exits).
C5_ProcessReturns == ~hung

\* C6: every grain spawned during a process call has a scheduled spawn time
\* t with blockStart <= t < blockEnd.
C6_SpawnInBlock ==
    call.op = "process" =>
        \A i \in DOMAIN spawnLog :
            /\ call.currentTime <= spawnLog[i].time
            /\ spawnLog[i].time < call.currentTime + FrameTime(call.arg)

\* C7: a process call adds exactly numFrames / sampleRate (numFrames > 0)
\* to currentTime, on the playing and on the silent path, and no other
\* operation changes currentTime.
C7_Clock ==
    /\ Returned => /\ call.arg > 0
                   /\ currentTime_ = call.currentTime + FrameTime(call.arg)
    /\ call.op # "process" => currentTime_ = call.currentTime
\* the second block of a run on the playing path
C7_Witness ==
    Returned /\ ~call.silent /\ call.currentTime > 0 /\ spawnLog # <<>>

\* C8 as stated: immediately after every start() call nextSpawnTime equals
\* currentTime, whatever the state before the call.
C8_StartAlwaysResyncs ==
    call.op = "start" => nextGrainTime_ = currentTime_
\* C8 as amended: after a start() call made while the engine is not playing
\* nextSpawnTime equals currentTime; a start() call made while the engine is
\* playing leaves nextSpawnTime as it was.
C8_StartResyncs ==
    call.op = "start" =>
        /\ isPlaying_
        /\ ~call.isPlaying => nextGrainTime_ = currentTime_
        /\ call.isPlaying => nextGrainTime_ = call.nextGrainTime
\* start() on a stopped engine whose spawn time was left over from before
C8_Witness ==
    call.op = "start" /\ ~call.isPlaying /\ call.nextGrainTime # call.currentTime

\* C9: in every state in which the engine is not playing no grain of the
\* pool is active.
C9_StoppedNoGrains ==
    ~isPlaying_ => ActiveSlots(grains_) = {}
\* stop() has returned from an engine that had active grains
C9_Witness ==
    call.op = "stop" /\ call.activeGrains > 0 /\ ~isPlaying_

\* C10: a process call made while the engine is not playing or has no
\* sample (absent or empty buffer) zeroes both outputs for all numFrames
\* frames, advances currentTime by the block and changes nothing else.
C10_SilentBlock ==
    [][(call'.op = "process" /\ call'.silent) =>
          /\ outputL' = [i \in 1 .. call'.arg |-> 0]
          /\ outputR' = [i \in 1 .. call'.arg |-> 0]
          /\ currentTime_' = currentTime_ + FrameTime(call'.arg)
          /\ spawnLog' = <<>>
          /\ ~hung'
          /\ UNCHANGED silentFrame]_vars
\* a silent block has passed over active grains and a pending spawn time
C10_Witness ==
    /\ Returned
    /\ call.silent
    /\ call.activeGrains > 0
    /\ call.nextGrainTime # call.currentTime
    /\ grainEvents_ # <<>>

\* C11: the base position of every spawned grain is the frozen position
\* whenever frozen is set (even if drifting is set too), else the drift
\* position whenever drifting is set, else the manual position (the smoothed
\* position parameter in the C++ engine, params.position in the JS engine).
C11_PositionPriority ==
    /\ Returned =>
          \A i \in DOMAIN spawnLog :
              spawnLog[i].basePosition =
                  IF isFrozen_ THEN frozenPosition_
                  ELSE IF isDrifting_ THEN driftPosition_
                  ELSE positionSmoother_.current
    /\ \A i \in DOMAIN jsLog :
          jsLog[i].basePosition =
              IF js.isFrozen THEN js.frozenPosition
              ELSE IF js.isDrifting THEN js.driftPosition
              ELSE js.params.position
\* a block spawned while frozen and drifting, the three positions differing
C11_Witness ==
    /\ Returned
    /\ spawnLog # <<>>
    /\ isFrozen_
    /\ isDrifting_
    /\ frozenPosition_ # driftPosition_
    /\ frozenPosition_ # positionSmoother_.current
    /\ driftPosition_ # positionSmoother_.current

\* C12: setFrozen(true, position) captures the position; while the engine
\* stays frozen no call other than setFrozen (updateParams, setDrift, a
\* process call with its drift update, ...) changes the captured position,
\* and every grain a process call spawns while frozen uses it.
C12_FrozenPositionHeld ==
    [][/\ (call'.op = "setFrozen" /\ call'.arg[1]) =>
              isFrozen_' /\ frozenPosition_' = call'.arg[2]
       /\ (isFrozen_ /\ call'.op # "setFrozen") =>
              isFrozen_' /\ frozenPosition_' = frozenPosition_
       /\ (isFrozen_ /\ call'.op = "process") =>
              \A i \in DOMAIN spawnLog' :
                  spawnLog'[i].basePosition = frozenPosition_]_vars
\* a block spawned while frozen, after the position parameter was changed
\* and with the drift on
C12_Witness ==
    /\ Returned
    /\ spawnLog # <<>>
    /\ isFrozen_
    /\ isDrifting_
    /\ params_.position # InitEngine.params.position
    /\ params_.position # frozenPosition_
    /\ driftPosition_ # frozenPosition_

\* C13: a process call of the C++ engine and a schedule() run of the JS
\* engine (from its timer or from start()) made while the frozen flag is set
\* leave the drift position unchanged, and so do freezing and unfreezing:
\* after unfreeze the drift goes on from the value it had.
C13_DriftSuppressed ==
    [][/\ (isFrozen_ /\ call'.op = "process") => driftPosition_' = driftPosition_
       /\ call'.op = "setFrozen" => driftPosition_' = driftPosition_
       /\ (js.isFrozen /\ jsCall'.op \in {"schedule", "start"}) =>
              js'.driftPosition = js.driftPosition
       /\ jsCall'.op \in {"freeze", "unfreeze"} =>
              js'.driftPosition = js.driftPosition]_vars
\* a playing block has passed while frozen and drifting
C13_Witness ==
    /\ Returned
    /\ ~call.silent
    /\ spawnLog # <<>>
    /\ isFrozen_
    /\ isDrifting_

\* C14: whenever drifting is enabled (and the freeze does not override it)
\* the base position of every grain a process call spawns is the drift
\* position, and it lies in [0, 1], whatever base setDrift was given.
C14_DriftBounded ==
    (Returned /\ isDrifting_ /\ ~isFrozen_) =>
        \A i \in DOMAIN spawnLog :
            /\ spawnLog[i].basePosition = driftPosition_
            /\ 0 <= spawnLog[i].basePosition
            /\ spawnLog[i].basePosition <= FP
\* a block spawned from a drift that was started at a base above 1
C14_Witness ==
    /\ Returned
    /\ spawnLog # <<>>
    /\ isDrifting_
    /\ ~isFrozen_
    /\ driftBasePosition_ > FP

\* C15: every modulated value a spawn uses (grain size, density, spread,
\* position, pitch, FM frequency, FM amount, attack, release, pan, pan
\* spread) lies within the declared range of its parameter, for every
\* parameter record and LFO target mask the host submits.
C15_ModulatedInRange ==
    \A i \in DOMAIN spawnLog :
        /\ 100 <= spawnLog[i].modulated.grainSize
        /\ spawnLog[i].modulated.grainSize <= 5000
        /\ 50 <= spawnLog[i].density
        /\ spawnLog[i].density <= 5000
        /\ 0 <= spawnLog[i].modulated.spread
        /\ spawnLog[i].modulated.spread <= 2 * FP
        /\ 0 <= spawnLog[i].position
        /\ spawnLog[i].position <= FP
        /\ -24 * FP <= spawnLog[i].modulated.pitch
        /\ spawnLog[i].modulated.pitch <= 24 * FP
        /\ 0 <= spawnLog[i].modulated.fmFreq
        /\ spawnLog[i].modulated.fmFreq <= 1000 * FP
        /\ 0 <= spawnLog[i].modulated.fmAmount
        /\ spawnLog[i].modulated.fmAmount <= 100 * FP
        /\ 100 <= spawnLog[i].modulated.attack
        /\ spawnLog[i].modulated.attack <= 9000
        /\ 100 <= spawnLog[i].modulated.release
        /\ spawnLog[i].modulated.release <= 9000
        /\ -FP <= spawnLog[i].modulated.panCenter
        /\ spawnLog[i].modulated.panCenter <= FP
        /\ 0 <= spawnLog[i].modulated.panSpread
        /\ spawnLog[i].modulated.panSpread <= FP

\* C16: the event buffer never holds more than 64 entries; a spawn made
\* while it holds 64 drops the new event and leaves the stored entries and
\* their order as they were, and the spawn itself goes through; a spawn
\* made while there is room appends one entry behind the stored ones.
C16_EventRingBounded ==
    /\ Len(grainEvents_) <= MAX_GRAIN_EVENTS
    /\ \A i \in DOMAIN spawnLog :
          /\ spawnLog[i].eventsKept
          /\ spawnLog[i].activeAfter
          /\ spawnLog[i].eventsAfter =
                IF spawnLog[i].eventsBefore < MAX_GRAIN_EVENTS
                THEN spawnLog[i].eventsBefore + 1
                ELSE MAX_GRAIN_EVENTS
\* a process call spawned into a full event buffer and returned
C16_Witness ==
    /\ Returned
    /\ Len(grainEvents_) = MAX_GRAIN_EVENTS
    /\ \E i \in DOMAIN spawnLog :
          spawnLog[i].eventsBefore = MAX_GRAIN_EVENTS /\ spawnLog[i].activeAfter

\* C19: when the sample buffer is replaced (the old one freed, the new one
\* committed) no grain is active, so that no grain spawned against the old
\* buffer is processed against the new one.
C19_BufferReplacedUnreferenced ==
    call.op = "sampleBuffer" =>
        /\ call.activeGrains = 0
        /\ ActiveSlots(grains_) = {}

\* C20: for attack and release ratios in [0.01, 0.9] the envelope is 0 at
\* phase 0, at most the minimum value 0.001 at the end of the fade
\* (phase 0.01), between 0.001 and 1 at the end of the attack, 1 at the
\* start of the release (phase 1 - releaseRatio) and at most 0.001 at
\* phase 1.
C20_EnvelopeBoundaries ==
    env.computed =>
        /\ env.envPhase = 0 => env.value = 0
        /\ env.envPhase = EnvFadeRatio => env.value <= EnvMinVal
        /\ env.envPhase = env.attackRatio =>
              EnvMinVal <= env.value /\ env.value <= FP
        /\ env.envPhase = FP - env.releaseRatio => env.value = FP
        /\ env.envPhase = FP => env.value <= EnvMinVal

\* C17: every event stored in the event buffer reaches the UI exactly once
\* and in spawn order: the events pollGrainEvents has returned, followed by
\* those in the bridge's queue, those in the messages on their way to the
\* bridge and those still in the engine's buffer, are the events stored,
\* in the order they were stored.
C17_EventsDeliveredOnce ==
    delivered \o bridge.grainQueue \o EventsIn(toMain) \o grainEvents_ = stored
\* the UI has polled the events of two drains and the engine has stored
\* events since
C17_Witness ==
    /\ delivered # <<>>
    /\ grainEvents_ # <<>>
    /\ toMain = <<>>
    /\ bridge.grainQueue = <<>>
    /\ worklet.frameCount > 2 * DrainPeriod
    /\ \E i, k \in DOMAIN delivered : delivered[i] # delivered[k]

\* C18: no message the host submits is discarded, also not one submitted
\* after the worklet node is created and before the engine in it exists.
C18_NoneDiscarded == discarded = <<>>

\* C21: when attackRatio + releaseRatio > 1 the envelope has no jump at
\* phase = attackRatio: its value there is the value the attack segment
\* tends to as the phase approaches attackRatio from below (the attack
\* formula taken at phase = attackRatio), up to one unit of rounding.
C21_ContinuousAtAttackEnd ==
    (/\ env.computed
     /\ env.attackRatio + env.releaseRatio > FP
     /\ env.attackRatio > EnvFadeRatio
     /\ env.envPhase = env.attackRatio)
        => Abs(env.value - EnvAttack(env, env.attackRatio,
                                     env.attackRatio - EnvFadeRatio)) <= 1

C23_FallbackWhenUnavailable ==
    (boot.step = "done" /\ "browser" \in DOMAIN boot
                        /\ ~WasmAvailable(boot.browser))
        => engineKind = "js"

\* C24: one undo after a parameter change (knob drag, button, XY pad,
\* LFO-target toggle, randomize) restores the parameter record that was in
\* effect immediately before that change.
C24_UndoRestoresPrevious ==
    (hist.on /\ hist.lastOp = "undo" /\ hist.undoAfter \in ChangeOps)
        => hist.params = hist.beforeChange

\* C30: the undo history holds between 1 and 50 records and historyIndex
\* (counted from 0) points into it; a push (knob drag-end, randomize)
\* keeps the entries up to historyIndex, discards those after it, appends
\* the new record and drops the oldest entry when that makes 51.
C30_HistoryBounded ==
    hist.on =>
        /\ 1 <= Len(hist.history) /\ Len(hist.history) <= MAX_HISTORY
        /\ 0 <= hist.historyIndex /\ hist.historyIndex <= Len(hist.history) - 1
        /\ hist.lastOp \in {"drag", "randomize"} =>
              LET kept == SubSeq(hist.pushed.history, 1, hist.pushed.historyIndex + 1)
              IN  /\ hist.history =
                        IF Len(kept) = MAX_HISTORY
                        THEN Append(Tail(kept), hist.params)
                        ELSE Append(kept, hist.params)
                  /\ hist.historyIndex = Len(hist.history) - 1
\* a push right after two undos in a full history: two entries discarded
C30_Witness ==
    /\ hist.on
    /\ hist.lastOp \in {"drag", "randomize"}
    /\ hist.undoAfter = "undo"
    /\ Len(hist.pushed.history) = MAX_HISTORY
    /\ hist.pushed.historyIndex = MAX_HISTORY - 3
    /\ Len(hist.history) = MAX_HISTORY - 1

\* C25: given the same updateParams, freeze, unfreeze and toggleFreeze
\* calls, the JS engine and the WASM engine (once the worklet has handled
\* every message) have the same frozen flag and, while frozen, the same
\* frozen position.
C25_FreezeEquivalent ==
    (bridge.isReady /\ "frozen" \in DOMAIN bridge /\ toWorklet = <<>>)
        => /\ js.isFrozen = isFrozen_
           /\ js.isFrozen = bridge.frozen
           /\ js.isFrozen => js.frozenPosition = frozenPosition_

\* C26: after the worklet has handled the message of a startDrift(b) made
\* with speed s and return tendency r, the engine's drift base and drift
\* position are b, its drift speed is s and its return tendency is r.
C26_DriftValuesPassed ==
    (call.op = "drift" /\ call.arg[1])
        => /\ driftBasePosition_ = call.arg[2]
           /\ driftPosition_ = call.arg[2]
           /\ driftSpeed_ = call.arg[3]
           /\ driftReturnTendency_ = call.arg[4]

\* C27: in the JS engine, whenever isPlaying is true and a sample buffer
\* is loaded, a timer for the next schedule() call is pending, in whatever
\* order start() and the buffer load were called.
C27_SchedulerPending ==
    (engineKind = "js" /\ js.isPlaying /\ js.buffer) => js.schedulerId

\* C28: a reversed grain plays all of its totalSamples frames, each read at a
\* position inside the buffer, and is deactivated because samplesRemaining
\* reached 0, not because its position left the buffer
C28_ReversedStaysInBounds ==
    (rev.on /\ rev.spawned /\ rev.grain.playbackRate < 0)
        => /\ rev.readsInBounds
           /\ ~rev.grain.active
                => /\ rev.frames = rev.grain.totalSamples
                   /\ rev.grain.samplesRemaining = 0

\* C29: the pitch snapPitchToScale returns has its semitone class in the
\* scale, and no pitch with a semitone class in the scale, in any octave, is
\* strictly closer to the pitch that was given
C29_SnapsToNearest ==
    snap.computed
        => /\ InScale(snap.pitch, snap.scaleType)
           /\ \A q \in -36 .. 36 :
                InScale(q, snap.scaleType)
                    => Abs(q - snap.input) >= Abs(snap.pitch - snap.input)
====
